---- MODULE Spec2Model ----
(***************************************************************************)
(* BudgetApp: the Domain State Store (useBudgetStore) over the Persistence *)
(* Adapter (expenseStorage, budgetStorage, paymentMethodStorage,           *)
(* budgetCategoryStorage) that serialises four collections to localStorage.*)
(*                                                                         *)
(* Strings the code inspects character by character (dates, months) are    *)
(* sequences of one-character strings; other strings are TLA+ strings.     *)
(* Identifiers produced by crypto.randomUUID() are the numbers 1, 2, ...   *)
(* in the order they are drawn: a drawn identifier is never drawn again.   *)
(* Records carry the fields the store and its queries read; the fields the *)
(* store only passes through (description, createdAt, creditLimit,         *)
(* billingDate, notes) are left out, and so is paymentMethod except on the *)
(* Expenses page, which filters on it.                                     *)
(***************************************************************************)
EXTENDS Integers, Sequences, FiniteSets, TLC

VARIABLES
    env,              \* the execution environment of the store's module
    localStorage,     \* storage key -> stored item
    expenses,         \* in-memory state of the store (BudgetState)
    budgets,
    paymentMethods,
    budgetCategories,
    nextUUID,         \* number of identifiers crypto.randomUUID() has produced, plus one
    initialized,      \* initialize() has run on this store instance
    lastOp,           \* the name of the operation that produced this state
    quotaExceeded,    \* localStorage.setItem refuses every write (QuotaExceededError)
    thrown,           \* the last operation ended in an exception that reached its caller
    localStorageCalls, \* the calls of localStorage the last operation completed, in order
    returned,         \* what the last call of the Persistence Adapter returned
    filterMonth,      \* state of the Expenses page (ExpensesPage)
    filterCategory,
    filterPaymentMethod,
    filteredExpenses,
    effectDeps,       \* the dependencies the page's filter effect last ran with
    editingExpenseId, \* null, or <<id>> of the expense edited in its row
    editingValues,    \* Partial<Expense>: the values of the row's inputs
    editingEffectDeps, \* the dependencies the page's editing effect last ran with
    formErrors,       \* formState.errors of ExpenseForm: the fields with an error
    alerted,          \* the message of the last handler's alert(), "" for none
    otherTab          \* the in-memory state of the store of a second tab

\* The component state of the Expenses page.
expensesPage == <<filterMonth, filterCategory, filterPaymentMethod,
                  filteredExpenses, effectDeps, editingExpenseId, editingValues,
                  editingEffectDeps>>

\* The state of the components that call the store of this tab.
components == <<expensesPage, formErrors, alerted>>

vars == <<env, localStorage, expenses, budgets, paymentMethods,
          budgetCategories, nextUUID, initialized, lastOp,
          quotaExceeded, thrown, localStorageCalls, returned, otherTab, components>>

memory == <<expenses, budgets, paymentMethods, budgetCategories>>

----------------------------------------------------------------------------
(* Bounds *)

\* crypto.randomUUID() is called at most MaxUUID times in a behaviour.
MaxUUID == 2

\* Callers of the Persistence Adapter keep at most MaxStored records in
\* localStorage, all keys together.
MaxStored == 3

\* One save() call of such a caller hands over at most MaxSaved records.
MaxSaved == 2

----------------------------------------------------------------------------
(* Value domains *)

\* typeof window === "undefined" (server render); window without a usable
\* localStorage; a browser with localStorage.
EnvModes == {"noWindow", "noLocalStorage", "browser"}

STORAGE_KEYS ==
    [expenses         |-> "budget-app-expenses",
     budgets          |-> "budget-app-budgets",
     paymentMethods   |-> "budget-app-payment-methods",
     budgetCategories |-> "budget-app-budget-categories"]

StorageKeySet == {STORAGE_KEYS[k] : k \in DOMAIN STORAGE_KEYS}

\* "2024-01-15", "2024-01-31", "2024-02-01"
Jan15 == <<"2","0","2","4","-","0","1","-","1","5">>
Feb01 == <<"2","0","2","4","-","0","2","-","0","1">>
Dates == {Jan15, Feb01}

\* "2024-01", "2024-02"
Jan == <<"2","0","2","4","-","0","1">>
Feb == <<"2","0","2","4","-","0","2">>
Months == {Jan, Feb}

\* what an <input type="month"> hands to the queries: a year-month, the
\* empty string of a cleared input, or (typed as text) a bare year
EmptyString == << >>
\* string | null: null is the empty sequence, the string id is <<id>>.
null == << >>
BareYear == <<"2","0","2","4">>
MonthArgs == Months \cup {EmptyString, BareYear}

\* format(new Date(), "yyyy-MM"): the month the program runs in
CurrentMonth == Jan

Categories == {"food", "rent"}
Amounts == {1, 2}
Balances == {-1, 2}
PaymentMethodNames == {"cash", "creditCard"}
CategoryNames == {"food", "rent"}

Ids == 1..MaxUUID

----------------------------------------------------------------------------
(* Inputs the callers hand to the store *)

\* Omit<Expense, "id" | "createdAt">
ExpenseInputs == [amount : Amounts, category : Categories, date : Dates]
\* Omit<Budget, "id" | "createdAt">
BudgetInputs == [category : Categories, amount : Amounts, month : Months]
\* Omit<PaymentMethodConfig, "id">
PaymentMethodInputs == [name : PaymentMethodNames, balance : Balances]
\* Omit<BudgetCategory, "id" | "createdAt">
BudgetCategoryInputs == [name : CategoryNames]

\* The identifiers a caller can name: every identifier drawn so far.
KnownIds == 1..(nextUUID - 1)

\* Partial<T> patches of one field.
OneField(field, values) == {[k \in {field} |-> v] : v \in values}

\* Patches that leave the id alone: one field, or all the fields a page's
\* edit form sends.
ExpensePatches ==
    OneField("amount", Amounts) \cup OneField("category", Categories)
    \cup OneField("date", Dates) \cup ExpenseInputs

BudgetPatches ==
    OneField("amount", Amounts) \cup OneField("category", Categories)
    \cup OneField("month", Months) \cup BudgetInputs

PaymentMethodPatches ==
    OneField("balance", Balances) \cup OneField("name", PaymentMethodNames)
    \cup PaymentMethodInputs

\* The inputs of the specification Spec, which runs all four collections
\* with identifier-carrying patches: one category and one date, so that the
\* records of a collection differ in id and amount (balance, name) only.
CoreExpenseInputs == [amount : Amounts, category : {"food"}, date : {Jan15}]
CoreBudgetInputs == [category : {"food"}, amount : Amounts, month : {Jan}]
CorePaymentMethodInputs == [name : {"cash"}, balance : Balances]
CoreBudgetCategoryInputs == [name : CategoryNames]

\* Partial<T> admits the empty patch and a patch that carries an id.
CoreExpensePatches ==
    {<< >>} \cup OneField("id", KnownIds) \cup OneField("amount", Amounts)
CoreBudgetPatches ==
    {<< >>} \cup OneField("id", KnownIds) \cup OneField("amount", Amounts)
CorePaymentMethodPatches ==
    {<< >>} \cup OneField("id", KnownIds) \cup OneField("balance", Balances)
CoreBudgetCategoryPatches ==
    {<< >>} \cup OneField("id", KnownIds) \cup OneField("name", CategoryNames)

----------------------------------------------------------------------------
(* JavaScript helpers *)

\* Faulty variant of Spread: { ...updates, ...e }, the fields the record
\* has already win over the patch. C21 rejects it.
Spread_KeepsOld(e, updates) ==
    [k \in (DOMAIN e) \cup (DOMAIN updates) |->
        IF k \in DOMAIN e THEN e[k] ELSE updates[k]]

\* { ...e, ...updates }
Spread(e, updates) ==
    [k \in (DOMAIN e) \cup (DOMAIN updates) |->
        IF k \in DOMAIN updates THEN updates[k] ELSE e[k]]

\* array.findIndex((e) => e.id === id); -1 when no element matches
findIndex(records, id) ==
    LET hits == {i \in 1..Len(records) : records[i].id = id}
    IN  IF hits = {} THEN -1
        ELSE CHOOSE i \in hits : \A j \in hits : i <= j

\* array.filter((e) => e.id !== id)
filterOutId(records, id) == SelectSeq(records, LAMBDA e : e.id # id)

\* array.map((e) => e.id === id ? { ...e, ...updates } : e)
mapSpread(records, id, updates) ==
    [i \in 1..Len(records) |->
        IF records[i].id = id THEN Spread(records[i], updates) ELSE records[i]]

\* string.startsWith(prefix)
startsWith(s, prefix) ==
    /\ Len(prefix) <= Len(s)
    /\ SubSeq(s, 1, Len(prefix)) = prefix

\* JSON.stringify of an array of flat objects: per object, its key/value
\* members.
JSONStringify(records) ==
    [i \in 1..Len(records) |->
        {<<k, records[i][k]>> : k \in DOMAIN records[i]}]

\* JSON.parse of such a text: per object, the value of each member key.
JSONParse(text) ==
    [i \in 1..Len(text) |->
        [k \in {m[1] : m \in text[i]} |->
            (CHOOSE m \in text[i] : m[1] = k)[2]]]

----------------------------------------------------------------------------
(* Persistence Adapter: the four storage objects differ only in their key *)

NoItem == [kind |-> "null", text |-> << >>]
\* A stored text JSON.parse rejects.
Malformed == [kind |-> "malformed", text |-> << >>]
Item(text) == [kind |-> "json", text |-> text]

\* typeof window === "undefined" || !localStorage
StorageUnavailable == env # "browser"

\* xStorage.getAll(), reading the store ls
getAllFrom(ls, key) ==
    IF StorageUnavailable THEN << >>
    ELSE LET data == ls[key]
         IN  IF data.kind = "json" THEN JSONParse(data.text) ELSE << >>

getAll(key) == getAllFrom(localStorage, key)

\* Faulty variant of save: the records are written behind what the key
\* holds. C17 rejects it.
save_Appends(key, records) ==
    IF StorageUnavailable THEN localStorage
    ELSE [localStorage EXCEPT
             ![key] = Item(JSONStringify(getAll(key) \o records))]

\* xStorage.save(records): the localStorage after the call
save(key, records) ==
    IF StorageUnavailable THEN localStorage
    ELSE [localStorage EXCEPT ![key] = Item(JSONStringify(records))]

\* Faulty variant of add: the stored collection is not read. C18 rejects it.
add_SkipsRead(key, record) == save(key, <<record>>)

\* xStorage.add(record)
add(key, record) == save(key, Append(getAll(key), record))

\* Faulty variant of update: the collection is written back even when no
\* record has the id. C12 rejects it.
update_SavesAlways(key, id, updates) ==
    LET records == getAll(key)
        index == findIndex(records, id)
    IN  IF index # -1
        THEN save(key, [records EXCEPT ![index] = Spread(records[index], updates)])
        ELSE save(key, records)

\* xStorage.update(id, updates)
update(key, id, updates) ==
    LET records == getAll(key)
        index == findIndex(records, id)
    IN  IF index # -1
        THEN save(key, [records EXCEPT ![index] = Spread(records[index], updates)])
        ELSE localStorage

\* The records without the one at index: array.splice(index, 1).
InOrderExcept(records, index) ==
    SubSeq(records, 1, index - 1) \o SubSeq(records, index + 1, Len(records))

\* Faulty variant of delete: removes the first matching record only, as
\* update does. C5 rejects it.
delete_FirstMatchOnly(key, id) ==
    LET records == getAll(key)
        index == findIndex(records, id)
    IN  IF index # -1
        THEN save(key, InOrderExcept(records, index))
        ELSE save(key, records)

\* xStorage.delete(id)
delete(key, id) == save(key, filterOutId(getAll(key), id))

\* Faulty variant of getAllThrows: getAll() without its check for a
\* missing item. C19 rejects it.
getAllThrows_OnMissingItem(key) ==
    ~StorageUnavailable /\ localStorage[key].kind # "json"

\* getAll() throws: JSON.parse is handed a stored text that is not JSON.
getAllThrows(key) ==
    ~StorageUnavailable /\ localStorage[key].kind = "malformed"

\* Faulty variant of saveThrows: save() without its availability check,
\* failing on the missing localStorage. C15 rejects it.
saveThrows_WhenUnavailable(key) == StorageUnavailable \/ quotaExceeded

\* save() throws: localStorage.setItem refuses the write.
saveThrows(key) == ~StorageUnavailable /\ quotaExceeded

addThrows(key) == getAllThrows(key) \/ saveThrows(key)

updateThrows(key, id) ==
    \/ getAllThrows(key)
    \/ findIndex(getAll(key), id) # -1 /\ saveThrows(key)

deleteThrows(key) == getAllThrows(key) \/ saveThrows(key)

\* One completed call of localStorage.
Call(method, key) == [method |-> method, key |-> key]

\* The calls of localStorage that getAll() completes.
getAllCalls(key) ==
    IF StorageUnavailable THEN << >> ELSE <<Call("getItem", key)>>

\* The calls that save() completes: a refused setItem writes nothing.
saveCalls(key) ==
    IF StorageUnavailable \/ saveThrows(key) THEN << >>
    ELSE <<Call("setItem", key)>>

addCalls(key) ==
    getAllCalls(key) \o (IF getAllThrows(key) THEN << >> ELSE saveCalls(key))

updateCalls(key, id) ==
    getAllCalls(key)
    \o (IF getAllThrows(key) THEN << >>
        ELSE IF findIndex(getAll(key), id) # -1 THEN saveCalls(key)
        ELSE << >>)

deleteCalls(key) ==
    getAllCalls(key) \o (IF getAllThrows(key) THEN << >> ELSE saveCalls(key))

\* The keys the last operation wrote with localStorage.setItem, in order.
setItemCalls ==
    LET writes == SelectSeq(localStorageCalls, LAMBDA c : c.method = "setItem")
    IN  [i \in 1..Len(writes) |-> writes[i].key]

----------------------------------------------------------------------------
(* Domain State Store: queries *)

\* array.reduce((sum, x) => sum + x[field], 0)
RECURSIVE reduceSum(_, _)
reduceSum(records, field) ==
    IF records = << >> THEN 0
    ELSE reduceSum(SubSeq(records, 1, Len(records) - 1), field)
         + records[Len(records)][field]

getExpensesByMonth(month) ==
    SelectSeq(expenses, LAMBDA e : startsWith(e.date, month))

\* Faulty variant of getBudgetsByMonth: prefix match, as for expenses.
\* C10 rejects it.
getBudgetsByMonth_Prefix(month) ==
    SelectSeq(budgets, LAMBDA b : startsWith(b.month, month))

getBudgetsByMonth(month) ==
    SelectSeq(budgets, LAMBDA b : b.month = month)

\* Faulty variant of getCategoryTotalByMonth: the category filter is
\* missing. C6 rejects it.
getCategoryTotalByMonth_AnyCategory(category, month) ==
    reduceSum(getExpensesByMonth(month), "amount")

getCategoryTotalByMonth(category, month) ==
    reduceSum(SelectSeq(getExpensesByMonth(month),
                        LAMBDA e : e.category = category), "amount")

\* Faulty variant of isBudgetExceeded: >= in place of >. C7 rejects it.
isBudgetExceeded_AtLeast(category, month) ==
    LET found == SelectSeq(getBudgetsByMonth(month),
                           LAMBDA b : b.category = category)
    IN  IF found = << >> THEN FALSE
        ELSE getCategoryTotalByMonth(category, month) >= found[1].amount

\* Faulty variant of isBudgetExceeded: of several budgets of the category
\* and month, the one added last is compared. C29 rejects it.
isBudgetExceeded_LastBudget(category, month) ==
    LET found == SelectSeq(getBudgetsByMonth(month),
                           LAMBDA b : b.category = category)
    IN  IF found = << >> THEN FALSE
        ELSE getCategoryTotalByMonth(category, month) > found[Len(found)].amount

isBudgetExceeded(category, month) ==
    LET found == SelectSeq(getBudgetsByMonth(month),
                           LAMBDA b : b.category = category)
    IN  IF found = << >> THEN FALSE
        ELSE getCategoryTotalByMonth(category, month) > found[1].amount

\* Faulty variant of getTotalBalance: overdrawn methods are skipped.
\* C8 rejects it.
getTotalBalance_PositiveOnly ==
    reduceSum(SelectSeq(paymentMethods, LAMBDA p : p.balance > 0), "balance")

getTotalBalance == reduceSum(paymentMethods, "balance")

----------------------------------------------------------------------------
(* Domain State Store: construction, initialize and the twelve mutators *)

\* create(): four empty arrays; no component has handled an event.
FreshStore ==
    /\ expenses = << >>
    /\ budgets = << >>
    /\ paymentMethods = << >>
    /\ budgetCategories = << >>
    /\ nextUUID = 1
    /\ initialized = FALSE
    /\ lastOp = "create"
    /\ quotaExceeded = FALSE
    /\ thrown = FALSE
    /\ localStorageCalls = << >>
    /\ returned = << >>
    /\ filterMonth = CurrentMonth
    /\ filterCategory = ""
    /\ filterPaymentMethod = ""
    /\ filteredExpenses = << >>
    /\ effectDeps = << >>
    /\ editingExpenseId = null
    /\ editingValues = << >>
    /\ editingEffectDeps = << >>
    /\ formErrors = {}
    /\ alerted = ""
    /\ otherTab = [expenses |-> << >>, budgets |-> << >>,
                   paymentMethods |-> << >>, budgetCategories |-> << >>]

Init ==
    /\ env \in EnvModes
    /\ localStorage = [key \in StorageKeySet |-> NoItem]
    /\ FreshStore

\* What an earlier session left in localStorage: one budget and one
\* credit-card payment method, under identifiers drawn then.
EarlierBudgets ==
    <<[id |-> 0, category |-> "food", amount |-> 1, month |-> Jan]>>
EarlierPaymentMethods ==
    <<[id |-> 0, name |-> "creditCard", balance |-> 2]>>

\* The store of a user who returns to the application in a browser.
InitReturning ==
    /\ env = "browser"
    /\ localStorage =
         [key \in StorageKeySet |->
            IF key = STORAGE_KEYS.budgets
            THEN Item(JSONStringify(EarlierBudgets))
            ELSE IF key = STORAGE_KEYS.paymentMethods
            THEN Item(JSONStringify(EarlierPaymentMethods))
            ELSE NoItem]
    /\ FreshStore

\* A page load constructs the store again: create() with four empty arrays.
\* What localStorage holds survives.
Reload ==
    /\ expenses' = << >>
    /\ budgets' = << >>
    /\ paymentMethods' = << >>
    /\ budgetCategories' = << >>
    /\ initialized' = FALSE
    /\ lastOp' = "create"
    /\ thrown' = FALSE
    /\ localStorageCalls' = << >>
    /\ UNCHANGED <<env, quotaExceeded, localStorage, nextUUID, returned, otherTab, components>>

\* Faulty variant of initializeResult: the budget categories are not
\* loaded. C2 rejects it.
initializeResult_SkipsCategories ==
    IF env = "noWindow" THEN memory
    ELSE <<getAll(STORAGE_KEYS.expenses),
           getAll(STORAGE_KEYS.budgets),
           getAll(STORAGE_KEYS.paymentMethods),
           budgetCategories>>

\* What initialize() leaves in memory: nothing new without a window, else
\* the four getAll() results.
initializeResult ==
    IF env = "noWindow" THEN memory
    ELSE <<getAll(STORAGE_KEYS.expenses),
           getAll(STORAGE_KEYS.budgets),
           getAll(STORAGE_KEYS.paymentMethods),
           getAll(STORAGE_KEYS.budgetCategories)>>

\* initialize() throws: one of its four getAll() calls does, before set().
initializeThrows ==
    env # "noWindow" /\ \E key \in StorageKeySet : getAllThrows(key)

\* The calls of localStorage that initialize() completes: its getAll()
\* calls in the order of the object literal, up to the first that throws.
initializeCalls ==
    LET keys == <<STORAGE_KEYS.expenses, STORAGE_KEYS.budgets,
                  STORAGE_KEYS.paymentMethods, STORAGE_KEYS.budgetCategories>>
        reached(i) == \A j \in 1..(i - 1) : ~getAllThrows(keys[j])
        callsOf(i) == IF reached(i) THEN getAllCalls(keys[i]) ELSE << >>
    IN  IF env = "noWindow" THEN << >>
        ELSE callsOf(1) \o callsOf(2) \o callsOf(3) \o callsOf(4)

\* Faulty variant of initialize: each collection is set from its own
\* getAll(), those that can be read are loaded. C30 rejects it.
initialize_PerCollection ==
    LET load(key, old, new) ==
            IF env = "noWindow" \/ getAllThrows(key) THEN old ELSE new
    IN  /\ thrown' = initializeThrows
        /\ expenses' = load(STORAGE_KEYS.expenses, expenses,
                            getAll(STORAGE_KEYS.expenses))
        /\ budgets' = load(STORAGE_KEYS.budgets, budgets,
                           getAll(STORAGE_KEYS.budgets))
        /\ paymentMethods' = load(STORAGE_KEYS.paymentMethods, paymentMethods,
                                  getAll(STORAGE_KEYS.paymentMethods))
        /\ budgetCategories' = load(STORAGE_KEYS.budgetCategories,
                                    budgetCategories,
                                    getAll(STORAGE_KEYS.budgetCategories))
        /\ initialized' = IF thrown' THEN initialized ELSE TRUE
        /\ lastOp' = "initialize"
        /\ localStorageCalls' = initializeCalls
        /\ UNCHANGED <<env, quotaExceeded, localStorage, nextUUID, returned,
                       otherTab, components>>

initialize ==
    /\ thrown' = initializeThrows
    /\ expenses' = IF thrown' THEN expenses ELSE initializeResult[1]
    /\ budgets' = IF thrown' THEN budgets ELSE initializeResult[2]
    /\ paymentMethods' = IF thrown' THEN paymentMethods ELSE initializeResult[3]
    /\ budgetCategories' = IF thrown' THEN budgetCategories ELSE initializeResult[4]
    /\ initialized' = IF thrown' THEN initialized ELSE TRUE
    /\ lastOp' = "initialize"
    /\ localStorageCalls' = initializeCalls
    /\ UNCHANGED <<env, quotaExceeded, localStorage, nextUUID, returned, otherTab, components>>

\* { ...data, id: crypto.randomUUID() }
withId(data) == Spread(data, [id |-> nextUUID])

\* The storage step of a mutator. The mutator calls the adapter before it
\* calls set(): when the adapter throws, the exception leaves the mutator
\* and neither localStorage nor (see the mutators) memory has changed.
storageStep(throws, after, calls) ==
    /\ thrown' = throws
    /\ localStorage' = IF throws THEN localStorage ELSE after
    /\ localStorageCalls' = calls

\* Faulty variant of addExpense: the new record is put in front.
\* C4 rejects it.
addExpense_Prepends(expenseData) ==
    /\ nextUUID <= MaxUUID
    /\ storageStep(addThrows(STORAGE_KEYS.expenses),
                   add(STORAGE_KEYS.expenses, withId(expenseData)),
                   addCalls(STORAGE_KEYS.expenses))
    /\ expenses' = IF thrown' THEN expenses
                   ELSE <<withId(expenseData)>> \o expenses
    /\ nextUUID' = nextUUID + 1
    /\ lastOp' = "addExpense"
    /\ UNCHANGED <<env, quotaExceeded, budgets, paymentMethods, budgetCategories,
                   initialized, returned, otherTab, components>>

\* A mutator as its caller sees it: what it does to the store and to
\* localStorage. A handler of a component calls it and then sets its own
\* state; a caller outside the components leaves their state alone.
call_addExpense(expenseData) ==
    /\ nextUUID <= MaxUUID
    /\ storageStep(addThrows(STORAGE_KEYS.expenses),
                   add(STORAGE_KEYS.expenses, withId(expenseData)),
                   addCalls(STORAGE_KEYS.expenses))
    /\ expenses' = IF thrown' THEN expenses
       ELSE Append(expenses, withId(expenseData))
    /\ nextUUID' = nextUUID + 1
    /\ lastOp' = "addExpense"
    /\ UNCHANGED <<env, quotaExceeded, budgets, paymentMethods, budgetCategories,
                   initialized, returned, otherTab>>

addExpense(expenseData) ==
    call_addExpense(expenseData) /\ UNCHANGED components

call_updateExpense(id, updates) ==
    /\ storageStep(updateThrows(STORAGE_KEYS.expenses, id),
                   update(STORAGE_KEYS.expenses, id, updates),
                   updateCalls(STORAGE_KEYS.expenses, id))
    /\ expenses' = IF thrown' THEN expenses
       ELSE mapSpread(expenses, id, updates)
    /\ lastOp' = "updateExpense"
    /\ UNCHANGED <<env, quotaExceeded, budgets, paymentMethods, budgetCategories,
                   nextUUID, initialized, returned, otherTab>>

updateExpense(id, updates) ==
    call_updateExpense(id, updates) /\ UNCHANGED components

\* Faulty variant of deleteExpense: the in-memory array without the record
\* is what gets saved. C28 rejects it.
call_deleteExpense_SavesMemory(id) ==
    /\ storageStep(deleteThrows(STORAGE_KEYS.expenses),
                   save(STORAGE_KEYS.expenses, filterOutId(expenses, id)),
                   deleteCalls(STORAGE_KEYS.expenses))
    /\ expenses' = IF thrown' THEN expenses
       ELSE filterOutId(expenses, id)
    /\ lastOp' = "deleteExpense"
    /\ UNCHANGED <<env, quotaExceeded, budgets, paymentMethods, budgetCategories,
                   nextUUID, initialized, returned, otherTab>>

call_deleteExpense(id) ==
    /\ storageStep(deleteThrows(STORAGE_KEYS.expenses),
                   delete(STORAGE_KEYS.expenses, id),
                   deleteCalls(STORAGE_KEYS.expenses))
    /\ expenses' = IF thrown' THEN expenses
       ELSE filterOutId(expenses, id)
    /\ lastOp' = "deleteExpense"
    /\ UNCHANGED <<env, quotaExceeded, budgets, paymentMethods, budgetCategories,
                   nextUUID, initialized, returned, otherTab>>

deleteExpense(id) ==
    call_deleteExpense(id) /\ UNCHANGED components

call_addBudget(budgetData) ==
    /\ nextUUID <= MaxUUID
    /\ storageStep(addThrows(STORAGE_KEYS.budgets),
                   add(STORAGE_KEYS.budgets, withId(budgetData)),
                   addCalls(STORAGE_KEYS.budgets))
    /\ budgets' = IF thrown' THEN budgets
       ELSE Append(budgets, withId(budgetData))
    /\ nextUUID' = nextUUID + 1
    /\ lastOp' = "addBudget"
    /\ UNCHANGED <<env, quotaExceeded, expenses, paymentMethods, budgetCategories,
                   initialized, returned, otherTab>>

addBudget(budgetData) ==
    call_addBudget(budgetData) /\ UNCHANGED components

call_updateBudget(id, updates) ==
    /\ storageStep(updateThrows(STORAGE_KEYS.budgets, id),
                   update(STORAGE_KEYS.budgets, id, updates),
                   updateCalls(STORAGE_KEYS.budgets, id))
    /\ budgets' = IF thrown' THEN budgets
       ELSE mapSpread(budgets, id, updates)
    /\ lastOp' = "updateBudget"
    /\ UNCHANGED <<env, quotaExceeded, expenses, paymentMethods, budgetCategories,
                   nextUUID, initialized, returned, otherTab>>

updateBudget(id, updates) ==
    call_updateBudget(id, updates) /\ UNCHANGED components

\* Faulty variant of deleteBudget: the storage step goes to the key of the
\* expenses. C16 rejects it.
deleteBudget_UnderExpensesKey(id) ==
    /\ storageStep(deleteThrows(STORAGE_KEYS.expenses),
                   delete(STORAGE_KEYS.expenses, id),
                   deleteCalls(STORAGE_KEYS.expenses))
    /\ budgets' = IF thrown' THEN budgets
       ELSE filterOutId(budgets, id)
    /\ lastOp' = "deleteBudget"
    /\ UNCHANGED <<env, quotaExceeded, expenses, paymentMethods, budgetCategories,
                   nextUUID, initialized, returned, otherTab, components>>

deleteBudget(id) ==
    /\ storageStep(deleteThrows(STORAGE_KEYS.budgets),
                   delete(STORAGE_KEYS.budgets, id),
                   deleteCalls(STORAGE_KEYS.budgets))
    /\ budgets' = IF thrown' THEN budgets
       ELSE filterOutId(budgets, id)
    /\ lastOp' = "deleteBudget"
    /\ UNCHANGED <<env, quotaExceeded, expenses, paymentMethods, budgetCategories,
                   nextUUID, initialized, returned, otherTab, components>>

\* Faulty variant of addPaymentMethod: set() is called before the storage
\* step. C20 rejects it.
addPaymentMethod_SetsFirst(paymentMethodData) ==
    /\ nextUUID <= MaxUUID
    /\ storageStep(addThrows(STORAGE_KEYS.paymentMethods),
                   add(STORAGE_KEYS.paymentMethods, withId(paymentMethodData)),
                   addCalls(STORAGE_KEYS.paymentMethods))
    /\ paymentMethods' = Append(paymentMethods, withId(paymentMethodData))
    /\ nextUUID' = nextUUID + 1
    /\ lastOp' = "addPaymentMethod"
    /\ UNCHANGED <<env, quotaExceeded, expenses, budgets, budgetCategories,
                   initialized, returned, otherTab, components>>

addPaymentMethod(paymentMethodData) ==
    /\ nextUUID <= MaxUUID
    /\ storageStep(addThrows(STORAGE_KEYS.paymentMethods),
                   add(STORAGE_KEYS.paymentMethods, withId(paymentMethodData)),
                   addCalls(STORAGE_KEYS.paymentMethods))
    /\ paymentMethods' = IF thrown' THEN paymentMethods
       ELSE Append(paymentMethods, withId(paymentMethodData))
    /\ nextUUID' = nextUUID + 1
    /\ lastOp' = "addPaymentMethod"
    /\ UNCHANGED <<env, quotaExceeded, expenses, budgets, budgetCategories,
                   initialized, returned, otherTab, components>>

updatePaymentMethod(id, updates) ==
    /\ storageStep(updateThrows(STORAGE_KEYS.paymentMethods, id),
                   update(STORAGE_KEYS.paymentMethods, id, updates),
                   updateCalls(STORAGE_KEYS.paymentMethods, id))
    /\ paymentMethods' = IF thrown' THEN paymentMethods
       ELSE mapSpread(paymentMethods, id, updates)
    /\ lastOp' = "updatePaymentMethod"
    /\ UNCHANGED <<env, quotaExceeded, expenses, budgets, budgetCategories,
                   nextUUID, initialized, returned, otherTab, components>>

deletePaymentMethod(id) ==
    /\ storageStep(deleteThrows(STORAGE_KEYS.paymentMethods),
                   delete(STORAGE_KEYS.paymentMethods, id),
                   deleteCalls(STORAGE_KEYS.paymentMethods))
    /\ paymentMethods' = IF thrown' THEN paymentMethods
       ELSE filterOutId(paymentMethods, id)
    /\ lastOp' = "deletePaymentMethod"
    /\ UNCHANGED <<env, quotaExceeded, expenses, budgets, budgetCategories,
                   nextUUID, initialized, returned, otherTab, components>>

addBudgetCategory(categoryData) ==
    /\ nextUUID <= MaxUUID
    /\ storageStep(addThrows(STORAGE_KEYS.budgetCategories),
                   add(STORAGE_KEYS.budgetCategories, withId(categoryData)),
                   addCalls(STORAGE_KEYS.budgetCategories))
    /\ budgetCategories' = IF thrown' THEN budgetCategories
       ELSE Append(budgetCategories, withId(categoryData))
    /\ nextUUID' = nextUUID + 1
    /\ lastOp' = "addBudgetCategory"
    /\ UNCHANGED <<env, quotaExceeded, expenses, budgets, paymentMethods,
                   initialized, returned, otherTab, components>>

updateBudgetCategory(id, updates) ==
    /\ storageStep(updateThrows(STORAGE_KEYS.budgetCategories, id),
                   update(STORAGE_KEYS.budgetCategories, id, updates),
                   updateCalls(STORAGE_KEYS.budgetCategories, id))
    /\ budgetCategories' = IF thrown' THEN budgetCategories
       ELSE mapSpread(budgetCategories, id, updates)
    /\ lastOp' = "updateBudgetCategory"
    /\ UNCHANGED <<env, quotaExceeded, expenses, budgets, paymentMethods,
                   nextUUID, initialized, returned, otherTab, components>>

deleteBudgetCategory(id) ==
    /\ storageStep(deleteThrows(STORAGE_KEYS.budgetCategories),
                   delete(STORAGE_KEYS.budgetCategories, id),
                   deleteCalls(STORAGE_KEYS.budgetCategories))
    /\ budgetCategories' = IF thrown' THEN budgetCategories
       ELSE filterOutId(budgetCategories, id)
    /\ lastOp' = "deleteBudgetCategory"
    /\ UNCHANGED <<env, quotaExceeded, expenses, budgets, paymentMethods,
                   nextUUID, initialized, returned, otherTab, components>>

\* The whole store: every mutator of the four collections, initialize and
\* page loads, in each environment.
Next ==
    \/ Reload
    \/ initialize
    \/ \E d \in CoreExpenseInputs : addExpense(d)
    \/ \E id \in Ids : \E u \in CoreExpensePatches : updateExpense(id, u)
    \/ \E id \in Ids : deleteExpense(id)
    \/ \E d \in CoreBudgetInputs : addBudget(d)
    \/ \E id \in Ids : \E u \in CoreBudgetPatches : updateBudget(id, u)
    \/ \E id \in Ids : deleteBudget(id)
    \/ \E d \in CorePaymentMethodInputs : addPaymentMethod(d)
    \/ \E id \in Ids : \E u \in CorePaymentMethodPatches : updatePaymentMethod(id, u)
    \/ \E id \in Ids : deletePaymentMethod(id)
    \/ \E d \in CoreBudgetCategoryInputs : addBudgetCategory(d)
    \/ \E id \in Ids : \E u \in CoreBudgetCategoryPatches : updateBudgetCategory(id, u)
    \/ \E id \in Ids : deleteBudgetCategory(id)

Spec == Init /\ [][Next]_vars

\* The collections the queries read (expenses, budgets, payment methods),
\* filled through the store's mutators with every category, date, month,
\* amount and balance of the value domains.
InitQueries == Init /\ env = "browser"

NextQueries ==
    \/ \E d \in ExpenseInputs : addExpense(d)
    \/ \E id \in Ids : \E u \in ExpensePatches : updateExpense(id, u)
    \/ \E id \in Ids : deleteExpense(id)
    \/ \E d \in BudgetInputs : addBudget(d)
    \/ \E id \in Ids : \E u \in BudgetPatches : updateBudget(id, u)
    \/ \E id \in Ids : deleteBudget(id)
    \/ \E d \in PaymentMethodInputs : addPaymentMethod(d)
    \/ \E id \in Ids : \E u \in PaymentMethodPatches : updatePaymentMethod(id, u)
    \/ \E id \in Ids : deletePaymentMethod(id)

SpecQueries == InitQueries /\ [][NextQueries]_vars

----------------------------------------------------------------------------
(* The five queries as calls: get() reads the state the store has then *)

\* The call of a query: it returns a value and sets nothing.
queryCall(name, args, value) ==
    /\ returned' = [query |-> name, args |-> args, value |-> value]
    /\ lastOp' = name
    /\ thrown' = FALSE
    /\ localStorageCalls' = << >>
    /\ UNCHANGED <<env, quotaExceeded, localStorage, memory, nextUUID,
                   initialized, otherTab, components>>

call_getExpensesByMonth(month) ==
    queryCall("getExpensesByMonth", <<month>>, getExpensesByMonth(month))

call_getBudgetsByMonth(month) ==
    queryCall("getBudgetsByMonth", <<month>>, getBudgetsByMonth(month))

\* Faulty variant of the call of getCategoryTotalByMonth: the total of the
\* last call with the same arguments is kept and returned again, whatever
\* the store did in between. C22 rejects it.
call_getCategoryTotalByMonth_Memoized(category, month) ==
    queryCall("getCategoryTotalByMonth", <<category, month>>,
              IF /\ DOMAIN returned # {}
                 /\ returned.query = "getCategoryTotalByMonth"
                 /\ returned.args = <<category, month>>
              THEN returned.value
              ELSE getCategoryTotalByMonth(category, month))

call_getCategoryTotalByMonth(category, month) ==
    queryCall("getCategoryTotalByMonth", <<category, month>>,
              getCategoryTotalByMonth(category, month))

call_isBudgetExceeded(category, month) ==
    queryCall("isBudgetExceeded", <<category, month>>,
              isBudgetExceeded(category, month))

call_getTotalBalance ==
    queryCall("getTotalBalance", << >>, getTotalBalance)

NextQueryCalls ==
    \/ \E d \in CoreExpenseInputs : addExpense(d)
    \/ \E id \in KnownIds : \E u \in OneField("amount", Amounts) : updateExpense(id, u)
    \/ \E id \in KnownIds : deleteExpense(id)
    \/ \E d \in CoreBudgetInputs : addBudget(d)
    \/ \E id \in KnownIds : \E u \in OneField("amount", Amounts) : updateBudget(id, u)
    \/ \E id \in KnownIds : deleteBudget(id)
    \/ \E d \in CorePaymentMethodInputs : addPaymentMethod(d)
    \/ \E id \in KnownIds : deletePaymentMethod(id)
    \/ \E m \in Months : call_getExpensesByMonth(m)
    \/ \E m \in Months : call_getBudgetsByMonth(m)
    \/ \E m \in Months : call_getCategoryTotalByMonth("food", m)
    \/ \E m \in Months : call_isBudgetExceeded("food", m)
    \/ call_getTotalBalance

SpecQueryCalls == InitQueries /\ [][NextQueryCalls]_vars

----------------------------------------------------------------------------
(* The store over a localStorage that fails *)

\* Something other than the adapter (another program of the origin, the
\* user in the developer tools) leaves a text under the key that is not
\* JSON.
corruptItem(key) ==
    /\ localStorage' = [localStorage EXCEPT ![key] = Malformed]
    /\ lastOp' = "corruptItem"
    /\ thrown' = FALSE
    /\ localStorageCalls' = << >>
    /\ UNCHANGED <<env, quotaExceeded, memory, nextUUID, initialized,
                   returned, otherTab, components>>

\* The origin's storage quota runs out, or room is made again.
quotaChange ==
    /\ quotaExceeded' = ~quotaExceeded
    /\ lastOp' = "quotaChange"
    /\ thrown' = FALSE
    /\ localStorageCalls' = << >>
    /\ UNCHANGED <<env, localStorage, memory, nextUUID, initialized,
                   returned, otherTab, components>>

InitFailures == Init /\ env = "browser"

NextFailures ==
    \/ initialize
    \/ \E key \in StorageKeySet : corruptItem(key)
    \/ quotaChange
    \/ \E d \in CoreExpenseInputs : addExpense(d)
    \/ \E id \in Ids : \E u \in OneField("amount", Amounts) : updateExpense(id, u)
    \/ \E id \in Ids : deleteExpense(id)
    \/ \E d \in CoreBudgetInputs : addBudget(d)
    \/ \E id \in Ids : \E u \in OneField("amount", Amounts) : updateBudget(id, u)
    \/ \E id \in Ids : deleteBudget(id)
    \/ \E d \in CorePaymentMethodInputs : addPaymentMethod(d)
    \/ \E id \in Ids : \E u \in OneField("balance", Balances) : updatePaymentMethod(id, u)
    \/ \E id \in Ids : deletePaymentMethod(id)
    \/ \E d \in CoreBudgetCategoryInputs : addBudgetCategory(d)
    \/ \E id \in Ids : \E u \in OneField("name", CategoryNames) : updateBudgetCategory(id, u)
    \/ \E id \in Ids : deleteBudgetCategory(id)

SpecFailures == InitFailures /\ [][NextFailures]_vars

----------------------------------------------------------------------------
(* The Persistence Adapter called directly, as its tests call it *)

\* A caller of the adapter leaves the store and the pages alone.
adapterCall(name) ==
    /\ lastOp' = name
    /\ UNCHANGED <<env, quotaExceeded, memory, nextUUID, initialized,
                   otherTab, components>>

storageGetAll(key) ==
    /\ adapterCall("getAll")
    /\ thrown' = getAllThrows(key)
    /\ returned' = IF thrown' THEN << >> ELSE getAll(key)
    /\ localStorageCalls' = getAllCalls(key)
    /\ localStorage' = localStorage

storageSave(key, records) ==
    /\ adapterCall("save")
    /\ storageStep(saveThrows(key), save(key, records), saveCalls(key))
    /\ returned' = << >>

storageAdd(key, record) ==
    /\ adapterCall("add")
    /\ storageStep(addThrows(key), add(key, record), addCalls(key))
    /\ returned' = << >>

storageUpdate(key, id, updates) ==
    /\ adapterCall("update")
    /\ storageStep(updateThrows(key, id), update(key, id, updates),
                   updateCalls(key, id))
    /\ returned' = << >>

storageDelete(key, id) ==
    /\ adapterCall("delete")
    /\ storageStep(deleteThrows(key), delete(key, id), deleteCalls(key))
    /\ returned' = << >>

\* The records a caller stores under each key: records of the key's
\* collection with any identifier.
WithAnyId(inputs) == {Spread(d, [id |-> i]) : d \in inputs, i \in Ids}

RecordsOf(key) ==
    IF key = STORAGE_KEYS.expenses THEN WithAnyId(CoreExpenseInputs)
    ELSE IF key = STORAGE_KEYS.budgets THEN WithAnyId(CoreBudgetInputs)
    ELSE IF key = STORAGE_KEYS.paymentMethods
         THEN WithAnyId(CorePaymentMethodInputs)
    ELSE WithAnyId(CoreBudgetCategoryInputs)

\* The patches a caller sends: the empty patch or an id.
AdapterPatches == {<< >>} \cup OneField("id", Ids)

\* The sequences of at most n records of a set.
SeqsUpTo(records, n) ==
    UNION {[1..len -> records] : len \in 0..n}

\* The number of records stored under the keys other than key.
StoredElsewhere(key) ==
    LET keys == <<STORAGE_KEYS.expenses, STORAGE_KEYS.budgets,
                  STORAGE_KEYS.paymentMethods, STORAGE_KEYS.budgetCategories>>
        count(i) == IF keys[i] = key THEN 0 ELSE Len(getAll(keys[i]))
    IN  count(1) + count(2) + count(3) + count(4)

\* The sequences a caller can save under key within the bounds.
SavableUnder(key) ==
    LET room == MaxStored - StoredElsewhere(key)
    IN  SeqsUpTo(RecordsOf(key), IF room < MaxSaved THEN room ELSE MaxSaved)

NextAdapter ==
    \/ \E key \in StorageKeySet : storageGetAll(key)
    \/ \E key \in StorageKeySet : \E records \in SavableUnder(key) :
          storageSave(key, records)
    \/ \E key \in StorageKeySet : \E record \in RecordsOf(key) :
          /\ StoredElsewhere(key) + Len(getAll(key)) < MaxStored
          /\ storageAdd(key, record)
    \/ \E key \in StorageKeySet : \E id \in Ids :
          \E updates \in AdapterPatches : storageUpdate(key, id, updates)
    \/ \E key \in StorageKeySet : \E id \in Ids : storageDelete(key, id)

SpecAdapter == Init /\ [][NextAdapter]_vars

----------------------------------------------------------------------------
(* The Expenses page (ExpensesPage) over the store *)

DigitValue ==
    [c \in {"0", "1", "2", "3", "4", "5", "6", "7", "8", "9"} |->
        CHOOSE n \in 0..9 : ToString(n) = c]

\* new Date(date).getTime() of a "YYYY-MM-DD" date, in the unit in which
\* only the order of two timestamps counts: the number YYYYMMDD.
getTime(date) ==
    LET digit(i) == DigitValue[date[i]]
    IN  (digit(1) * 1000 + digit(2) * 100 + digit(3) * 10 + digit(4)) * 10000
        + (digit(6) * 10 + digit(7)) * 100
        + (digit(9) * 10 + digit(10))

\* (a, b) => new Date(b.date).getTime() - new Date(a.date).getTime()
compareDateDescending(a, b) == getTime(b.date) - getTime(a.date)

\* array.sort(compareDateDescending): a stable sort, latest date first.
RECURSIVE sort(_)
sort(records) ==
    IF records = << >> THEN << >>
    ELSE LET front == sort(SubSeq(records, 1, Len(records) - 1))
             last == records[Len(records)]
             n == Cardinality({i \in 1..Len(front) :
                                  compareDateDescending(front[i], last) <= 0})
         IN  SubSeq(front, 1, n) \o <<last>> \o SubSeq(front, n + 1, Len(front))

\* The expenses the page adds and edits carry the payment method, which
\* the page filters on.
PageExpenseInputs ==
    [amount : {1}, category : Categories,
     paymentMethod : PaymentMethodNames, date : Dates]

\* The dependencies of the filter effect.
filterDeps == <<expenses, filterMonth, filterCategory, filterPaymentMethod>>

\* React runs the filter effect after every render in which one of its
\* dependencies changed, before it handles the next event.
EffectPending == effectDeps # filterDeps

\* No filter is set: the effect's variable filtered is still the store's
\* own expenses array when sort() reorders it.
NoFilter ==
    filterMonth = EmptyString /\ filterCategory = "" /\ filterPaymentMethod = ""

\* The array the effect hands to sort().
filtered ==
    LET byMonth ==
            IF filterMonth # EmptyString
            THEN SelectSeq(expenses, LAMBDA e : startsWith(e.date, filterMonth))
            ELSE expenses
        byCategory ==
            IF filterCategory # ""
            THEN SelectSeq(byMonth, LAMBDA e : e.category = filterCategory)
            ELSE byMonth
    IN  IF filterPaymentMethod # ""
        THEN SelectSeq(byCategory,
                       LAMBDA e : e.paymentMethod = filterPaymentMethod)
        ELSE byCategory

\* The filter effect. Array.prototype.filter returns a new array,
\* Array.prototype.sort sorts the array it is called on and returns it.
\* The dependencies the editing effect last ran with hold the array object
\* itself: where that is the store's array, they see it sorted as well.
filterEffect ==
    /\ EffectPending
    /\ filteredExpenses' = sort(filtered)
    /\ expenses' = IF NoFilter THEN sort(expenses) ELSE expenses
    /\ effectDeps' = <<expenses', filterMonth, filterCategory, filterPaymentMethod>>
    /\ editingEffectDeps' =
         IF editingEffectDeps # << >> /\ editingEffectDeps[2] = expenses
         THEN <<editingEffectDeps[1], expenses'>>
         ELSE editingEffectDeps
    /\ lastOp' = "filterEffect"
    /\ thrown' = FALSE
    /\ localStorageCalls' = << >>
    /\ UNCHANGED <<env, quotaExceeded, localStorage, budgets, paymentMethods,
                   budgetCategories, nextUUID, initialized, returned,
                   filterMonth, filterCategory, filterPaymentMethod,
                   editingExpenseId, editingValues, formErrors, alerted,
                   otherTab>>

\* The handlers of the page leave the store and the browser alone.
pageHandler(name) ==
    /\ ~EffectPending
    /\ lastOp' = name
    /\ thrown' = FALSE
    /\ localStorageCalls' = << >>
    /\ UNCHANGED <<env, quotaExceeded, localStorage, memory, nextUUID,
                   initialized, returned, filteredExpenses, effectDeps,
                   editingExpenseId, editingValues, editingEffectDeps,
                   formErrors, alerted, otherTab>>

setFilterMonth(value) ==
    /\ pageHandler("setFilterMonth")
    /\ filterMonth' = value
    /\ UNCHANGED <<filterCategory, filterPaymentMethod>>

setFilterCategory(value) ==
    /\ pageHandler("setFilterCategory")
    /\ filterCategory' = value
    /\ UNCHANGED <<filterMonth, filterPaymentMethod>>

setFilterPaymentMethod(value) ==
    /\ pageHandler("setFilterPaymentMethod")
    /\ filterPaymentMethod' = value
    /\ UNCHANGED <<filterMonth, filterCategory>>

InitExpensesPage == Init /\ env = "browser"

NextExpensesPage ==
    \/ filterEffect
    \/ ~EffectPending /\ initialize
    \/ ~EffectPending /\ \E d \in PageExpenseInputs : addExpense(d)
    \/ ~EffectPending /\ \E id \in Ids : \E u \in PageExpenseInputs : updateExpense(id, u)
    \/ ~EffectPending /\ \E id \in Ids : deleteExpense(id)
    \/ \E value \in Months \cup {EmptyString} : setFilterMonth(value)
    \/ \E value \in Categories \cup {""} : setFilterCategory(value)
    \/ \E value \in PaymentMethodNames \cup {""} : setFilterPaymentMethod(value)

SpecExpensesPage == InitExpensesPage /\ [][NextExpensesPage]_vars

----------------------------------------------------------------------------
(* ExpenseForm and the inline editing of the Expenses page *)

\* What a preprocess step of the schema hands on for a missing value.
undefined == << >>

\* The string is a decimal integer literal.
isInteger(val) ==
    LET digits == IF val # << >> /\ val[1] = "-" THEN Tail(val) ELSE val
    IN  /\ digits # << >>
        /\ \A i \in 1..Len(digits) : digits[i] \in DOMAIN DigitValue

\* isNaN(Number(val)) of a string: Number("") is 0; a string that is no
\* number gives NaN.
isNaN(val) == val # EmptyString /\ ~isInteger(val)

RECURSIVE parseDigits(_)
parseDigits(digits) ==
    IF digits = << >> THEN 0
    ELSE parseDigits(SubSeq(digits, 1, Len(digits) - 1)) * 10
         + DigitValue[digits[Len(digits)]]

\* Number(val) of a string for which it is not NaN.
Number(val) ==
    IF val = EmptyString THEN 0
    ELSE IF val[1] = "-" THEN 0 - parseDigits(Tail(val))
    ELSE parseDigits(val)

\* The preprocess step of expenseSchema.amount: undefined, or <<number>>.
preprocessAmount(val) ==
    IF val = EmptyString THEN undefined
    ELSE IF isNaN(val) THEN undefined
    ELSE <<Number(val)>>

\* Faulty variant of expenseSchemaErrors: z.number().min(0) on the amount.
\* C23 rejects it.
expenseSchemaErrors_Min0(values) ==
    {field \in {"amount", "category", "paymentMethod", "date"} :
        CASE field = "amount" ->
                \/ preprocessAmount(values.amount) = undefined
                \/ preprocessAmount(values.amount)[1] < 0
          [] field = "category" -> values.category = ""
          [] field = "paymentMethod" -> values.paymentMethod = ""
          [] field = "date" -> values.date = EmptyString}

\* zodResolver(expenseSchema): the fields of the form whose value the
\* schema refuses.
expenseSchemaErrors(values) ==
    {field \in {"amount", "category", "paymentMethod", "date"} :
        CASE field = "amount" ->
                \/ preprocessAmount(values.amount) = undefined
                \/ preprocessAmount(values.amount)[1] < 1
          [] field = "category" -> values.category = ""
          [] field = "paymentMethod" -> values.paymentMethod = ""
          [] field = "date" -> values.date = EmptyString}

\* The data the schema hands to onSubmit when it refuses nothing.
expenseSchemaData(values) ==
    [amount        |-> preprocessAmount(values.amount)[1],
     category      |-> values.category,
     paymentMethod |-> values.paymentMethod,
     date          |-> values.date]

\* Faulty variant of editingDeps: the effect depends on editingExpenseId
\* alone and does not run when the expenses change. C25 rejects it.
editingDeps_IdOnly == <<editingExpenseId, << >> >>

\* The dependencies of the editing effect.
editingDeps == <<editingExpenseId, expenses>>

\* React runs the editing effect after every render in which one of its
\* dependencies changed, before it handles the next event.
EditingEffectPending == editingEffectDeps # editingDeps

EffectsPending == EditingEffectPending \/ EffectPending

\* The rows of the list: the expenses of filteredExpenses. The row of the
\* expense edited shows the inputs with Save and Cancel, every other row
\* shows Edit and Delete.
IsEditingRow(expense) == editingExpenseId = <<expense.id>>
Rows == {filteredExpenses[i] : i \in 1..Len(filteredExpenses)}

\* What an event handler of these components leaves alone.
handlerFrame ==
    UNCHANGED <<filterMonth, filterCategory, filterPaymentMethod,
                filteredExpenses, effectDeps, editingEffectDeps>>

\* A handler that does not call the store.
componentHandler(name) ==
    /\ ~EffectsPending
    /\ lastOp' = name
    /\ thrown' = FALSE
    /\ localStorageCalls' = << >>
    /\ handlerFrame
    /\ UNCHANGED <<env, quotaExceeded, localStorage, memory, nextUUID,
                   initialized, returned, otherTab>>

\* The editing effect: the edit ends when the expense edited is gone.
editingEffect ==
    /\ EditingEffectPending
    /\ LET gone == /\ editingExpenseId # null
                   /\ findIndex(expenses, editingExpenseId[1]) = -1
       IN  /\ editingExpenseId' = IF gone THEN null ELSE editingExpenseId
           /\ editingValues' = IF gone THEN << >> ELSE editingValues
           /\ lastOp' = IF gone THEN "editingEffect.clear" ELSE "editingEffect"
    /\ editingEffectDeps' = editingDeps
    /\ thrown' = FALSE
    /\ localStorageCalls' = << >>
    /\ UNCHANGED <<env, quotaExceeded, localStorage, memory, nextUUID,
                   initialized, returned, otherTab, formErrors, alerted,
                   filterMonth, filterCategory, filterPaymentMethod,
                   filteredExpenses, effectDeps>>

\* handleSubmit(onSubmit) of ExpenseForm with the values of its fields;
\* editingExpense is the prop: null, or <<expense>>.
handleSubmit(values, editingExpense) ==
    /\ ~EffectsPending
    /\ formErrors' = expenseSchemaErrors(values)
    /\ handlerFrame
    /\ UNCHANGED <<editingExpenseId, editingValues>>
    /\ IF formErrors' # {}
       THEN /\ lastOp' = "handleSubmit"
            /\ thrown' = FALSE
            /\ localStorageCalls' = << >>
            /\ alerted' = ""
            /\ UNCHANGED <<env, quotaExceeded, localStorage, memory, nextUUID,
                           initialized, returned, otherTab>>
       ELSE /\ IF editingExpense # null
               THEN call_updateExpense(editingExpense[1].id,
                                       expenseSchemaData(values))
               ELSE call_addExpense(expenseSchemaData(values))
            /\ alerted' = IF thrown' THEN ""
                          ELSE IF editingExpense # null THEN "expense updated"
                          ELSE "expense added"

handleEdit(expense) ==
    /\ expense \in Rows
    /\ ~IsEditingRow(expense)
    /\ componentHandler("handleEdit")
    /\ editingExpenseId' = <<expense.id>>
    /\ editingValues' = [amount        |-> expense.amount,
                         category      |-> expense.category,
                         paymentMethod |-> expense.paymentMethod,
                         date          |-> expense.date]
    /\ UNCHANGED <<formErrors, alerted>>

\* onChange of the amount input of the row edited:
\* setEditingValues({ ...editingValues, amount: Number(e.target.value) }).
\* An input of type number has the value "" while what is typed is no number.
onChangeEditingAmount(value) ==
    /\ \E expense \in Rows : IsEditingRow(expense)
    /\ componentHandler("onChangeEditingAmount")
    /\ editingValues' = Spread(editingValues, [amount |-> Number(value)])
    /\ UNCHANGED <<editingExpenseId, formErrors, alerted>>

handleCancelEdit ==
    /\ \E expense \in Rows : IsEditingRow(expense)
    /\ componentHandler("handleCancelEdit")
    /\ editingExpenseId' = null
    /\ editingValues' = << >>
    /\ UNCHANGED <<formErrors, alerted>>

\* a ?? b for a field of editingValues
orElse(field, expense) ==
    IF field \in DOMAIN editingValues THEN editingValues[field]
    ELSE expense[field]

handleSaveEdit ==
    /\ \E row \in Rows : IsEditingRow(row)
    /\ ~EffectsPending
    /\ handlerFrame
    /\ UNCHANGED formErrors
    /\ LET index == findIndex(expenses, editingExpenseId[1])
           expense == expenses[index]
       IN  IF index = -1
           THEN /\ lastOp' = "handleSaveEdit"
                /\ thrown' = FALSE
                /\ localStorageCalls' = << >>
                /\ UNCHANGED <<env, quotaExceeded, localStorage, memory,
                               nextUUID, initialized, returned, otherTab,
                               editingExpenseId, editingValues, alerted>>
           ELSE /\ call_updateExpense(
                       editingExpenseId[1],
                       [amount        |-> orElse("amount", expense),
                        category      |-> orElse("category", expense),
                        paymentMethod |-> orElse("paymentMethod", expense),
                        date          |-> orElse("date", expense)])
                /\ alerted' = IF thrown' THEN "" ELSE "expense updated"
                /\ editingExpenseId' = IF thrown' THEN editingExpenseId ELSE null
                /\ editingValues' = IF thrown' THEN editingValues ELSE << >>

\* confirmed: what confirm() returned.
handleDelete(id, confirmed) ==
    /\ \E expense \in Rows : expense.id = id /\ ~IsEditingRow(expense)
    /\ ~EffectsPending
    /\ handlerFrame
    /\ UNCHANGED <<editingValues, formErrors, alerted>>
    /\ IF confirmed
       THEN /\ call_deleteExpense(id)
            /\ editingExpenseId' =
                 IF ~thrown' /\ editingExpenseId = <<id>> THEN null
                 ELSE editingExpenseId
       ELSE /\ lastOp' = "handleDelete"
            /\ thrown' = FALSE
            /\ localStorageCalls' = << >>
            /\ UNCHANGED <<env, quotaExceeded, localStorage, memory, nextUUID,
                           initialized, returned, otherTab, editingExpenseId>>

\* What the fields of ExpenseForm can hold: the amount input any text, the
\* selects "" or one of their options (the categories of the budgets, two
\* of the payment methods), the date input "" or a date.
FormValues ==
    [amount        : {EmptyString, <<"a">>, <<"0">>, <<"-", "1">>, <<"1">>, <<"2">>},
     category      : {""} \cup {budgets[i].category : i \in 1..Len(budgets)},
     paymentMethod : {"", "cash"},
     date          : {EmptyString, Jan15}]

\* The editingExpense prop: none, or an expense of the store.
EditingExpenseProps ==
    {null} \cup {<<expenses[i]>> : i \in 1..Len(expenses)}

\* ExpenseForm on a page that runs the effects of the Expenses page,
\* without or with an expense to edit.
NextExpenseForm ==
    \/ editingEffect
    \/ ~EditingEffectPending /\ filterEffect
    \/ ~EffectsPending /\ initialize
    \/ \E values \in FormValues : \E editingExpense \in EditingExpenseProps :
          handleSubmit(values, editingExpense)

SpecExpenseForm == InitReturning /\ [][NextExpenseForm]_vars

\* The Expenses page: it renders <ExpenseForm /> without an expense to
\* edit, and the rows.
NextExpensesEditing ==
    \/ editingEffect
    \/ ~EditingEffectPending /\ filterEffect
    \/ ~EffectsPending /\ initialize
    \/ \E values \in FormValues : handleSubmit(values, null)
    \/ \E expense \in Rows : handleEdit(expense)
    \/ \E value \in {EmptyString, <<"-", "1">>, <<"2">>} : onChangeEditingAmount(value)
    \/ handleCancelEdit
    \/ handleSaveEdit
    \/ \E id \in KnownIds : \E confirmed \in BOOLEAN : handleDelete(id, confirmed)
    \/ ~EffectsPending /\ \E id \in KnownIds : deleteExpense(id)

SpecExpensesEditing == InitReturning /\ [][NextExpensesEditing]_vars

----------------------------------------------------------------------------
(* Two tabs: a second instance of the store over the same localStorage *)

\* The second tab runs the same module: create() gave it four empty arrays
\* (Init), and each of its operations runs to completion, as JavaScript
\* runs a handler. Of its mutators, the three of the expenses collection
\* are modelled.
otherTabStep(name) ==
    /\ lastOp' = name
    /\ UNCHANGED <<env, quotaExceeded, memory, initialized, returned, components>>

otherTabInitialize ==
    /\ thrown' = initializeThrows
    /\ otherTab' = IF thrown' THEN otherTab
                   ELSE [expenses         |-> initializeResult[1],
                         budgets          |-> initializeResult[2],
                         paymentMethods   |-> initializeResult[3],
                         budgetCategories |-> initializeResult[4]]
    /\ localStorageCalls' = initializeCalls
    /\ otherTabStep("otherTab.initialize")
    /\ UNCHANGED <<localStorage, nextUUID>>

otherTabAddExpense(expenseData) ==
    /\ nextUUID <= MaxUUID
    /\ storageStep(addThrows(STORAGE_KEYS.expenses),
                   add(STORAGE_KEYS.expenses, withId(expenseData)),
                   addCalls(STORAGE_KEYS.expenses))
    /\ otherTab' = IF thrown' THEN otherTab
                   ELSE [otherTab EXCEPT
                            !.expenses = Append(@, withId(expenseData))]
    /\ nextUUID' = nextUUID + 1
    /\ otherTabStep("otherTab.addExpense")

otherTabUpdateExpense(id, updates) ==
    /\ storageStep(updateThrows(STORAGE_KEYS.expenses, id),
                   update(STORAGE_KEYS.expenses, id, updates),
                   updateCalls(STORAGE_KEYS.expenses, id))
    /\ otherTab' = IF thrown' THEN otherTab
                   ELSE [otherTab EXCEPT
                            !.expenses = mapSpread(@, id, updates)]
    /\ otherTabStep("otherTab.updateExpense")
    /\ UNCHANGED nextUUID

otherTabDeleteExpense(id) ==
    /\ storageStep(deleteThrows(STORAGE_KEYS.expenses),
                   delete(STORAGE_KEYS.expenses, id),
                   deleteCalls(STORAGE_KEYS.expenses))
    /\ otherTab' = IF thrown' THEN otherTab
                   ELSE [otherTab EXCEPT !.expenses = filterOutId(@, id)]
    /\ otherTabStep("otherTab.deleteExpense")
    /\ UNCHANGED nextUUID

InitTabs == Init /\ env = "browser"

\* The two tabs add every expense with amount 1, so that another amount is
\* the work of an update, and patch the amount.
NextTabs ==
    \/ initialize
    \/ \E d \in [amount : {1}, category : {"food"}, date : {Jan15}] : addExpense(d)
    \/ \E id \in KnownIds : \E u \in OneField("amount", Amounts) : updateExpense(id, u)
    \/ \E id \in KnownIds : deleteExpense(id)
    \/ \E d \in CoreBudgetInputs : addBudget(d)
    \/ \E id \in KnownIds : \E u \in OneField("amount", Amounts) : updateBudget(id, u)
    \/ \E id \in KnownIds : deleteBudget(id)
    \/ otherTabInitialize
    \/ \E d \in [amount : {1}, category : {"food"}, date : {Jan15}] : otherTabAddExpense(d)
    \/ \E id \in KnownIds : \E u \in OneField("amount", Amounts) : otherTabUpdateExpense(id, u)
    \/ \E id \in KnownIds : otherTabDeleteExpense(id)

SpecTabs == InitTabs /\ [][NextTabs]_vars

----------------------------------------------------------------------------
(* The Budgets page (BudgetsPage): step 2, the allocation of budgets *)

\* What the category input can hold, and string.trim() of it.
CategoryEntries == {"", " ", "food", " rent "}
trim ==
    [s \in CategoryEntries |->
        CASE s = " " -> ""
          [] s = " rent " -> "rent"
          [] OTHER -> s]

\* budgets.filter((b) => b.month === selectedMonth)
filteredBudgets(selectedMonth) ==
    SelectSeq(budgets, LAMBDA b : b.month = selectedMonth)

totalAllocated(selectedMonth) ==
    reduceSum(filteredBudgets(selectedMonth), "amount")

\* A handler of the page that returns before it calls the store, after
\* alert(message) or, with message "", without.
budgetsPageReturn(name, message) ==
    /\ lastOp' = name
    /\ alerted' = message
    /\ thrown' = FALSE
    /\ localStorageCalls' = << >>
    /\ UNCHANGED <<env, quotaExceeded, localStorage, memory, nextUUID,
                   initialized, returned, otherTab, expensesPage, formErrors>>

\* Faulty variant of handleAddBudget: the total balance is not looked at.
\* C26 rejects it.
handleAddBudget_NoBalanceCheck(selectedMonth, newBudgetCategory, newBudgetAmount) ==
    IF trim[newBudgetCategory] = "" \/ newBudgetAmount <= 0
    THEN budgetsPageReturn("handleAddBudget", "enter category and amount")
    ELSE /\ call_addBudget([category |-> trim[newBudgetCategory],
                            amount   |-> newBudgetAmount,
                            month    |-> selectedMonth])
         /\ alerted' = ""
         /\ UNCHANGED <<expensesPage, formErrors>>

\* handleAddBudget with the state of the page it reads: the month selected
\* and the category and amount of the inputs.
handleAddBudget(selectedMonth, newBudgetCategory, newBudgetAmount) ==
    IF trim[newBudgetCategory] = "" \/ newBudgetAmount <= 0
    THEN budgetsPageReturn("handleAddBudget", "enter category and amount")
    ELSE IF totalAllocated(selectedMonth) + newBudgetAmount > getTotalBalance
    THEN budgetsPageReturn("handleAddBudget", "budget exceeds total balance")
    ELSE /\ call_addBudget([category |-> trim[newBudgetCategory],
                            amount   |-> newBudgetAmount,
                            month    |-> selectedMonth])
         /\ alerted' = ""
         /\ UNCHANGED <<expensesPage, formErrors>>

\* handleUpdateBudget(budgetId) with the state of the page it reads. The
\* Save button belongs to the row of a budget of the month selected.
handleUpdateBudget(budgetId, selectedMonth, editingBudgetAmount) ==
    /\ \E i \in 1..Len(filteredBudgets(selectedMonth)) :
          filteredBudgets(selectedMonth)[i].id = budgetId
    /\ LET others == SelectSeq(filteredBudgets(selectedMonth),
                               LAMBDA b : b.id # budgetId)
           otherBudgetsTotal == reduceSum(others, "amount")
       IN  IF editingBudgetAmount <= 0
           THEN budgetsPageReturn("handleUpdateBudget", "enter amount")
           ELSE IF findIndex(filteredBudgets(selectedMonth), budgetId) = -1
           THEN budgetsPageReturn("handleUpdateBudget", "")
           ELSE IF otherBudgetsTotal + editingBudgetAmount > getTotalBalance
           THEN budgetsPageReturn("handleUpdateBudget",
                                  "budget exceeds total balance")
           ELSE /\ call_updateBudget(budgetId, [amount |-> editingBudgetAmount])
                /\ alerted' = ""
                /\ UNCHANGED <<expensesPage, formErrors>>

\* The amount inputs hand on e.target.value ? Number(e.target.value) : 0.
BudgetAmountEntries == {-1, 0, 1, 2, 3}

\* The identifiers of the budgets held.
BudgetIds == {budgets[i].id : i \in 1..Len(budgets)}

NextBudgetsPage ==
    \/ initialize
    \/ \E d \in CorePaymentMethodInputs : addPaymentMethod(d)
    \/ \E id \in KnownIds : deletePaymentMethod(id)
    \/ \E m \in Months : \E c \in CategoryEntries : \E a \in BudgetAmountEntries :
          handleAddBudget(m, c, a)
    \/ \E id \in BudgetIds : \E m \in Months : \E a \in BudgetAmountEntries :
          handleUpdateBudget(id, m, a)
    \/ \E id \in BudgetIds : deleteBudget(id)

SpecBudgetsPage == InitReturning /\ [][NextBudgetsPage]_vars

----------------------------------------------------------------------------
(* The payment-methods page (PaymentMethodsPage): the amounts it shows *)

\* expenses.filter((e) => e.paymentMethod === methodName)
\*         .reduce((sum, e) => sum + e.amount, 0)
getUsageByMethod(methodName) ==
    reduceSum(SelectSeq(expenses, LAMBDA e : e.paymentMethod = methodName),
              "amount")

\* creditCards.reduce((sum, card) => sum + getUsageByMethod(...), 0)
RECURSIVE reduceUsage(_)
reduceUsage(creditCards) ==
    IF creditCards = << >> THEN 0
    ELSE reduceUsage(SubSeq(creditCards, 1, Len(creditCards) - 1))
         + getUsageByMethod("creditCard")

getCreditCardTotal ==
    reduceUsage(SelectSeq(paymentMethods, LAMBDA m : m.name = "creditCard"))

\* methods.some((m) => m.name === "creditCard"): the card that shows
\* getCreditCardTotal() is rendered.
CreditCardTotalShown ==
    \E i \in 1..Len(paymentMethods) : paymentMethods[i].name = "creditCard"

NextPaymentMethodsPage ==
    \/ initialize
    \/ \E d \in PaymentMethodInputs : addPaymentMethod(d)
    \/ \E id \in KnownIds : \E u \in OneField("name", PaymentMethodNames) :
          updatePaymentMethod(id, u)
    \/ \E id \in KnownIds : deletePaymentMethod(id)
    \/ \E d \in PageExpenseInputs : addExpense(d)
    \/ \E id \in KnownIds : deleteExpense(id)

SpecPaymentMethodsPage == InitReturning /\ [][NextPaymentMethodsPage]_vars

----------------------------------------------------------------------------
(* Several budgets of one category and month *)

\* The store of a user whose persisted budget is joined by budgets of the
\* same or another category and month, with expenses of the category.
NextBudgets ==
    \/ initialize
    \/ \E d \in BudgetInputs : addBudget(d)
    \/ \E id \in BudgetIds : deleteBudget(id)
    \/ \E d \in CoreExpenseInputs : addExpense(d)
    \/ \E id \in KnownIds : deleteExpense(id)

SpecBudgets == InitReturning /\ [][NextBudgets]_vars

----------------------------------------------------------------------------
(* initialize() over stored data of which a part is malformed *)

\* The store of a returning user: pages load, records are added, and the
\* item of any key may be left malformed before initialize() reads it.
NextInitializeFailures ==
    \/ initialize
    \/ Reload
    \/ \E key \in StorageKeySet : corruptItem(key)
    \/ \E d \in CoreExpenseInputs : addExpense(d)
    \/ \E d \in CoreBudgetCategoryInputs : addBudgetCategory(d)

SpecInitializeFailures == InitReturning /\ [][NextInitializeFailures]_vars

----------------------------------------------------------------------------
(* Vocabulary of the properties *)

\* The records of a sequence at the positions idx, in their original order.
RECURSIVE InOrder(_, _)
InOrder(records, idx) ==
    IF idx = {} THEN << >>
    ELSE LET last == CHOOSE i \in idx : \A j \in idx : j <= i
         IN  Append(InOrder(records, idx \ {last}), records[last])

\* The sum of a field over the records at the positions idx.
RECURSIVE SumOver(_, _, _)
SumOver(records, idx, field) ==
    IF idx = {} THEN 0
    ELSE LET i == CHOOSE j \in idx : TRUE
         IN  records[i][field] + SumOver(records, idx \ {i}, field)

Positions(records) == 1..Len(records)

HasId(records, id) == \E i \in Positions(records) : records[i].id = id

\* The year-month of a date: its first seven characters.
YearMonth(date) == IF Len(date) <= 7 THEN date ELSE SubSeq(date, 1, 7)

\* What getAll() returns for each collection, in the order of memory.
persisted ==
    <<getAll(STORAGE_KEYS.expenses),
      getAll(STORAGE_KEYS.budgets),
      getAll(STORAGE_KEYS.paymentMethods),
      getAll(STORAGE_KEYS.budgetCategories)>>

----------------------------------------------------------------------------
(* C1: with storage available, once initialize() has run on the store      *)
(* instance, every in-memory collection equals, element for element and in *)
(* the same order, what getAll() returns for its persisted collection,     *)
(* whatever add/update/delete mutators ran since (patches that carry an id *)
(* included).                                                              *)
C1_MemoryEqualsPersisted ==
    (env = "browser" /\ initialized) => memory = persisted

(* C2: with storage available, initialize() sets each in-memory collection *)
(* to the persisted collection, whatever memory held, and writes nothing   *)
(* to storage; a second initialize() right after it changes nothing.       *)
C2_InitializeLoadsPersisted ==
    [][(initialize /\ env = "browser") =>
          /\ memory' = persisted
          /\ localStorage' = localStorage
          /\ initializeResult' = memory'
      ]_vars

C2_Witness ==
    /\ lastOp = "initialize"
    /\ env = "browser"
    /\ expenses # << >>
    /\ budgetCategories # << >>

(* C3: when the persistence layer is unavailable (no window, or a window   *)
(* without localStorage), initialize() changes none of the four in-memory  *)
(* collections.                                                            *)
C3_InitializeNoOpWhenUnavailable ==
    [][(initialize /\ StorageUnavailable) => UNCHANGED memory]_vars

(* C4: for every expense input d, addExpense(d) leaves the in-memory       *)
(* Expenses equal to the previous sequence followed by exactly one new     *)
(* record, whose id no previous record had and whose other fields equal d, *)
(* and getExpensesByMonth(first seven characters of d.date) then contains  *)
(* that record exactly once.                                               *)
C4_AddExpenseAppends ==
    [][\A d \in ExpenseInputs :
          addExpense(d) =>
            LET new == expenses'[Len(expenses')]
                inMonth == getExpensesByMonth(YearMonth(d.date))'
            IN  /\ Len(expenses') = Len(expenses) + 1
                /\ SubSeq(expenses', 1, Len(expenses)) = expenses
                /\ ~HasId(expenses, new.id)
                /\ DOMAIN new = (DOMAIN d) \cup {"id"}
                /\ \A k \in DOMAIN d : new[k] = d[k]
                /\ Cardinality({i \in Positions(inMonth) : inMonth[i] = new}) = 1
      ]_vars

C4_Witness ==
    /\ lastOp = "addExpense"
    /\ Len(expenses) = 2
    /\ YearMonth(expenses[1].date) # YearMonth(expenses[2].date)
    /\ Len(getExpensesByMonth(YearMonth(expenses[2].date))) = 1

(* C5: after deleteExpense(id) no record with that id remains in memory,   *)
(* in the persisted expenses or in a query result (getCategoryTotalByMonth *)
(* counts the remaining records only); the records with another id are     *)
(* kept, in order, in memory and in storage; deleting the same id again    *)
(* changes neither memory nor the persisted collection.                    *)
C5_DeleteExpenseRemoves ==
    [][\A id \in Ids :
          deleteExpense(id) =>
            LET stored == getAll(STORAGE_KEYS.expenses)
                storedAfter == getAll(STORAGE_KEYS.expenses)'
                keptInMemory == {i \in Positions(expenses) : expenses[i].id # id}
                keptInStorage == {i \in Positions(stored) : stored[i].id # id}
            IN  /\ ~HasId(expenses', id)
                /\ ~HasId(storedAfter, id)
                /\ \A m \in MonthArgs : ~HasId(getExpensesByMonth(m)', id)
                /\ \A c \in Categories, m \in MonthArgs :
                      getCategoryTotalByMonth(c, m)' =
                        SumOver(expenses,
                                {i \in keptInMemory :
                                    /\ expenses[i].category = c
                                    /\ startsWith(expenses[i].date, m)},
                                "amount")
                /\ expenses' = InOrder(expenses, keptInMemory)
                /\ storedAfter = InOrder(stored, keptInStorage)
                /\ filterOutId(expenses', id) = expenses'
                /\ getAllFrom(delete(STORAGE_KEYS.expenses, id)',
                              STORAGE_KEYS.expenses) = storedAfter
      ]_vars

C5_Witness ==
    /\ lastOp = "deleteExpense"
    /\ env = "browser"
    /\ Len(expenses) = 1
    /\ getAll(STORAGE_KEYS.expenses) = expenses
    /\ \E id \in KnownIds : \A i \in 1..4 :
          ~HasId(memory[i], id) /\ ~HasId(persisted[i], id)

(* C6: getCategoryTotalByMonth(c, m) is the sum of amount over exactly the *)
(* in-memory Expenses with category c and a date starting with m, and 0    *)
(* when there is none.                                                     *)
C6_CategoryTotalIsSum ==
    \A c \in Categories, m \in MonthArgs :
        LET matching == {i \in Positions(expenses) :
                            /\ expenses[i].category = c
                            /\ startsWith(expenses[i].date, m)}
        IN  /\ getCategoryTotalByMonth(c, m) = SumOver(expenses, matching, "amount")
            /\ matching = {} => getCategoryTotalByMonth(c, m) = 0

C6_Witness ==
    /\ Len(expenses) = 2
    /\ expenses[1].category = expenses[2].category
    /\ YearMonth(expenses[1].date) # YearMonth(expenses[2].date)
    /\ \E c \in Categories :
          /\ getCategoryTotalByMonth(c, YearMonth(expenses[1].date)) = 1
          /\ getCategoryTotalByMonth(c, BareYear) = 3
          /\ \E other \in Categories : getCategoryTotalByMonth(other, BareYear) = 0

(* C7: isBudgetExceeded(c, m) is false when no Budget has category c and   *)
(* month m; otherwise it is true exactly when getCategoryTotalByMonth(c, m)*)
(* is strictly greater than the amount of the (earliest) such budget, so   *)
(* it is false when the total equals the amount.                           *)
C7_ExceededIffStrictlyGreater ==
    \A c \in Categories, m \in MonthArgs :
        LET matching == {i \in Positions(budgets) :
                            budgets[i].category = c /\ budgets[i].month = m}
            first == CHOOSE i \in matching : \A j \in matching : i <= j
        IN  isBudgetExceeded(c, m) =
              IF matching = {} THEN FALSE
              ELSE getCategoryTotalByMonth(c, m) > budgets[first].amount

C7_Witness ==
    /\ Len(budgets) = 1
    /\ Len(expenses) = 1
    /\ budgets[1].category = expenses[1].category
    /\ budgets[1].month = YearMonth(expenses[1].date)
    /\ budgets[1].amount = expenses[1].amount
    /\ ~isBudgetExceeded(budgets[1].category, budgets[1].month)

(* C8: getTotalBalance() is the sum of balance over all in-memory payment  *)
(* methods, negative balances included, and 0 when there is none.          *)
C8_TotalBalanceIsSum ==
    /\ getTotalBalance = SumOver(paymentMethods, Positions(paymentMethods), "balance")
    /\ paymentMethods = << >> => getTotalBalance = 0

C8_Witness ==
    /\ Len(paymentMethods) = 2
    /\ paymentMethods[1].balance < 0
    /\ paymentMethods[2].balance > 0
    /\ getTotalBalance = 1

(* C9: for every month argument the pages can pass (the empty string of a  *)
(* cleared month input and a bare year included), getExpensesByMonth       *)
(* returns exactly the expenses whose date lies in that year-month, in     *)
(* insertion order, and no expense of another month.                       *)
C9_ExpensesOfTheMonthOnly ==
    \A m \in MonthArgs :
        getExpensesByMonth(m) =
            InOrder(expenses,
                    {i \in Positions(expenses) : YearMonth(expenses[i].date) = m})

(* C10: getBudgetsByMonth(month) returns exactly the in-memory Budgets     *)
(* whose month equals the argument (no prefix matching), in insertion      *)
(* order, and the empty sequence when no budget has that month.            *)
C10_BudgetsOfExactMonth ==
    \A m \in MonthArgs :
        LET matching == {i \in Positions(budgets) : budgets[i].month = m}
        IN  /\ getBudgetsByMonth(m) = InOrder(budgets, matching)
            /\ matching = {} => getBudgetsByMonth(m) = << >>

C10_Witness ==
    /\ Len(budgets) = 2
    /\ budgets[1].month # budgets[2].month
    /\ getBudgetsByMonth(budgets[2].month) = <<budgets[2]>>
    /\ getBudgetsByMonth(BareYear) = << >>

----------------------------------------------------------------------------
(* Updates *)

\* after is before with the patch merged into one record that has the id:
\* the fields of the patch take the patch's values, the record keeps its
\* other fields and its position, every other record is the same.
UpdatesOneRecord(before, after, id, updates) ==
    HasId(before, id) =>
        \E i \in Positions(before) :
            /\ before[i].id = id
            /\ after = [before EXCEPT ![i] = Spread(before[i], updates)]

(* C11: for each of the four collections, updateX(id, patch) on an id some *)
(* record has merges the patch into the record with that id and changes    *)
(* nothing else: the record keeps its other fields and its position, and   *)
(* every other record stays as it was, in memory and in the persisted      *)
(* collection.                                                             *)
C11_UpdatePatchesOneRecord ==
    [][\A id \in Ids :
          /\ \A u \in CoreExpensePatches : updateExpense(id, u) =>
                /\ UpdatesOneRecord(expenses, expenses', id, u)
                /\ UpdatesOneRecord(persisted[1], persisted[1]', id, u)
          /\ \A u \in CoreBudgetPatches : updateBudget(id, u) =>
                /\ UpdatesOneRecord(budgets, budgets', id, u)
                /\ UpdatesOneRecord(persisted[2], persisted[2]', id, u)
          /\ \A u \in CorePaymentMethodPatches : updatePaymentMethod(id, u) =>
                /\ UpdatesOneRecord(paymentMethods, paymentMethods', id, u)
                /\ UpdatesOneRecord(persisted[3], persisted[3]', id, u)
          /\ \A u \in CoreBudgetCategoryPatches : updateBudgetCategory(id, u) =>
                /\ UpdatesOneRecord(budgetCategories, budgetCategories', id, u)
                /\ UpdatesOneRecord(persisted[4], persisted[4]', id, u)
      ]_vars

\* Neither the in-memory collection nor the collection persisted under the
\* key holds a record with the id.
NoRecordHas(records, key, id) ==
    ~HasId(records, id) /\ ~HasId(getAll(key), id)

\* The step raised no error, left the in-memory collections alone and
\* wrote nothing.
NothingHappened ==
    /\ ~thrown'
    /\ memory' = memory
    /\ setItemCalls' = << >>
    /\ localStorage' = localStorage

(* C12: for each of the four collections, updateX(id, patch) with an id no *)
(* record has, in memory or in storage, raises no error, leaves the        *)
(* in-memory collection unchanged and writes nothing to storage.           *)
C12_UpdateOfUnknownIdIsNoOp ==
    [][\A id \in Ids :
          /\ (lastOp' = "updateExpense"
                /\ NoRecordHas(expenses, STORAGE_KEYS.expenses, id)) =>
               \A u \in CoreExpensePatches :
                  updateExpense(id, u) => NothingHappened
          /\ (lastOp' = "updateBudget"
                /\ NoRecordHas(budgets, STORAGE_KEYS.budgets, id)) =>
               \A u \in CoreBudgetPatches :
                  updateBudget(id, u) => NothingHappened
          /\ (lastOp' = "updatePaymentMethod"
                /\ NoRecordHas(paymentMethods, STORAGE_KEYS.paymentMethods, id)) =>
               \A u \in CorePaymentMethodPatches :
                  updatePaymentMethod(id, u) => NothingHappened
          /\ (lastOp' = "updateBudgetCategory"
                /\ NoRecordHas(budgetCategories, STORAGE_KEYS.budgetCategories, id)) =>
               \A u \in CoreBudgetCategoryPatches :
                  updateBudgetCategory(id, u) => NothingHappened
      ]_vars

\* An update of an id that no budget category has: memory and storage
\* hold the one category they held before, and setItem was not called.
C12_Witness ==
    /\ lastOp = "updateBudgetCategory"
    /\ env = "browser"
    /\ setItemCalls = << >>
    /\ Len(budgetCategories) = 1
    /\ persisted[4] = budgetCategories
    /\ localStorage[STORAGE_KEYS.expenses] = NoItem

----------------------------------------------------------------------------
(* Order and identity of the records *)

(* C13: in every reachable state the in-memory Expenses are in the order   *)
(* in which they were added, whatever the Expenses page did to compute its *)
(* display list under any combination of its three filters. The store      *)
(* draws the ids 1, 2, ... in the order of the addExpense calls and no     *)
(* patch of the page carries an id, so the order of addition is the        *)
(* ascending order of the ids.                                             *)
C13_ExpensesInOrderAdded ==
    \A i, j \in Positions(expenses) :
        i < j => expenses[i].id < expenses[j].id

\* No two records of the sequence have the same id.
NoDuplicateIds(records) ==
    \A i, j \in Positions(records) : records[i].id = records[j].id => i = j

(* C14: in every reachable state no two records of a collection share an   *)
(* identifier, in memory or in storage, whatever add, update (with any     *)
(* patch Partial<...> admits, one that carries an id included) and delete  *)
(* calls were made.                                                        *)
C14_IdsAreUnique ==
    \A i \in 1..4 :
        NoDuplicateIds(memory[i]) /\ NoDuplicateIds(persisted[i])

----------------------------------------------------------------------------
(* Mutators and the storage they use *)

\* What a mutator does to its in-memory collection.
AddEffect(before, after, data) ==
    /\ Len(after) = Len(before) + 1
    /\ SubSeq(after, 1, Len(before)) = before
    /\ after[Len(after)] = Spread(data, [id |-> nextUUID])

UpdateEffect(before, after, id, updates) ==
    /\ Len(after) = Len(before)
    /\ \A i \in Positions(before) :
          after[i] = IF before[i].id = id THEN Spread(before[i], updates)
                     ELSE before[i]

DeleteEffect(before, after, id) ==
    after = InOrder(before, {i \in Positions(before) : before[i].id # id})

\* The step raised no error and wrote nothing.
Quiet ==
    /\ ~thrown'
    /\ localStorageCalls' = << >>
    /\ localStorage' = localStorage

(* C15: when storage is unavailable (no window, or no localStorage), every *)
(* add, update and delete mutator still makes the change in memory that it *)
(* makes with storage available (add appends the new record, update       *)
(* merges the patch into the records with the id, delete removes them),    *)
(* raises no error and makes no call of localStorage.                      *)
C15_MutatorsWorkWithoutStorage ==
    [][StorageUnavailable =>
          /\ lastOp' = "addExpense" =>
               \A d \in CoreExpenseInputs : addExpense(d) =>
                   AddEffect(expenses, expenses', d) /\ Quiet
          /\ lastOp' = "updateExpense" =>
               \A id \in Ids : \A u \in CoreExpensePatches : updateExpense(id, u) =>
                   UpdateEffect(expenses, expenses', id, u) /\ Quiet
          /\ lastOp' = "deleteExpense" =>
               \A id \in Ids : deleteExpense(id) =>
                   DeleteEffect(expenses, expenses', id) /\ Quiet
          /\ lastOp' = "addBudget" =>
               \A d \in CoreBudgetInputs : addBudget(d) =>
                   AddEffect(budgets, budgets', d) /\ Quiet
          /\ lastOp' = "updateBudget" =>
               \A id \in Ids : \A u \in CoreBudgetPatches : updateBudget(id, u) =>
                   UpdateEffect(budgets, budgets', id, u) /\ Quiet
          /\ lastOp' = "deleteBudget" =>
               \A id \in Ids : deleteBudget(id) =>
                   DeleteEffect(budgets, budgets', id) /\ Quiet
          /\ lastOp' = "addPaymentMethod" =>
               \A d \in CorePaymentMethodInputs : addPaymentMethod(d) =>
                   AddEffect(paymentMethods, paymentMethods', d) /\ Quiet
          /\ lastOp' = "updatePaymentMethod" =>
               \A id \in Ids : \A u \in CorePaymentMethodPatches : updatePaymentMethod(id, u) =>
                   UpdateEffect(paymentMethods, paymentMethods', id, u) /\ Quiet
          /\ lastOp' = "deletePaymentMethod" =>
               \A id \in Ids : deletePaymentMethod(id) =>
                   DeleteEffect(paymentMethods, paymentMethods', id) /\ Quiet
          /\ lastOp' = "addBudgetCategory" =>
               \A d \in CoreBudgetCategoryInputs : addBudgetCategory(d) =>
                   AddEffect(budgetCategories, budgetCategories', d) /\ Quiet
          /\ lastOp' = "updateBudgetCategory" =>
               \A id \in Ids : \A u \in CoreBudgetCategoryPatches : updateBudgetCategory(id, u) =>
                   UpdateEffect(budgetCategories, budgetCategories', id, u) /\ Quiet
          /\ lastOp' = "deleteBudgetCategory" =>
               \A id \in Ids : deleteBudgetCategory(id) =>
                   DeleteEffect(budgetCategories, budgetCategories', id) /\ Quiet
      ]_vars

\* Without localStorage: two budgets added, one of them updated since.
C15_Witness ==
    /\ env = "noLocalStorage"
    /\ lastOp = "updateBudget"
    /\ Len(budgets) = 2
    /\ budgets[1].amount # budgets[2].amount
    /\ localStorage[STORAGE_KEYS.budgets] = NoItem

\* The storage key of each collection, in the order of memory, and the
\* names of its mutators.
KeyOfCollection ==
    <<"budget-app-expenses", "budget-app-budgets",
      "budget-app-payment-methods", "budget-app-budget-categories">>

MutatorsOfCollection ==
    <<{"addExpense", "updateExpense", "deleteExpense"},
      {"addBudget", "updateBudget", "deleteBudget"},
      {"addPaymentMethod", "updatePaymentMethod", "deletePaymentMethod"},
      {"addBudgetCategory", "updateBudgetCategory", "deleteBudgetCategory"}>>

(* C16: a mutator of one collection leaves the other three collections     *)
(* unchanged in memory and in storage, and every call of localStorage it   *)
(* makes, read or write, names the key of its own collection.              *)
C16_MutatorTouchesOwnCollectionOnly ==
    [][\A i \in 1..4 :
          lastOp' \in MutatorsOfCollection[i] =>
            /\ \A j \in (1..4) \ {i} :
                  /\ memory[j]' = memory[j]
                  /\ localStorage'[KeyOfCollection[j]]
                        = localStorage[KeyOfCollection[j]]
            /\ \A n \in 1..Len(localStorageCalls') :
                  localStorageCalls'[n].key = KeyOfCollection[i]
      ]_vars

\* A budget was added and deleted again next to a stored expense.
C16_Witness ==
    /\ lastOp = "deleteBudget"
    /\ env = "browser"
    /\ Len(localStorageCalls) = 2
    /\ Len(expenses) = 1
    /\ persisted[1] = expenses
    /\ budgets = << >>
    /\ localStorage[STORAGE_KEYS.budgets] = Item(<< >>)

----------------------------------------------------------------------------
(* The Persistence Adapter *)

SameElsewhere(before, after, key) ==
    \A other \in StorageKeySet \ {key} : after[other] = before[other]

(* C18: with storage available, for every stored sequence s, add(r)        *)
(* overwrites the key of its collection with s followed by r, delete(id)   *)
(* overwrites it with the records of s whose id is not id, in their        *)
(* order, and each of the two makes exactly one setItem call, on its own   *)
(* key, and leaves the other keys as they were.                            *)
C18_AddAndDeleteRewriteOwnKey ==
    [][\A key \in StorageKeySet :
          LET s == getAll(key)
          IN  /\ (lastOp' = "add" /\ ~StorageUnavailable) =>
                    \A r \in RecordsOf(key) : storageAdd(key, r) =>
                        /\ getAll(key)' = s \o <<r>>
                        /\ setItemCalls' = <<key>>
                        /\ SameElsewhere(localStorage, localStorage', key)
              /\ (lastOp' = "delete" /\ ~StorageUnavailable) =>
                    \A id \in Ids : storageDelete(key, id) =>
                        /\ getAll(key)' =
                              InOrder(s, {i \in Positions(s) : s[i].id # id})
                        /\ setItemCalls' = <<key>>
                        /\ SameElsewhere(localStorage, localStorage', key)
      ]_vars

\* delete(id) left two records under its key that share another id and
\* differ in a field.
C18_Witness ==
    /\ env = "browser"
    /\ lastOp = "delete"
    /\ \E key \in StorageKeySet :
          /\ setItemCalls = <<key>>
          /\ Len(getAll(key)) = 2
          /\ getAll(key)[1].id = getAll(key)[2].id
          /\ getAll(key)[1] # getAll(key)[2]

(* C19: getAll() returns the empty sequence when nothing is stored under   *)
(* the key of its collection and when the environment has no usable        *)
(* storage; in both cases it raises no error and writes nothing.           *)
C19_GetAllOfNothingIsEmpty ==
    [][\A key \in StorageKeySet :
          (/\ lastOp' = "getAll"
           /\ StorageUnavailable \/ localStorage[key] = NoItem
           /\ storageGetAll(key)) =>
              /\ returned' = << >>
              /\ ~thrown'
              /\ setItemCalls' = << >>
              /\ localStorage' = localStorage
      ]_vars

\* getAll() of a key that was never written, next to a key that holds a
\* record.
C19_Witness ==
    /\ env = "browser"
    /\ lastOp = "getAll"
    /\ returned = << >>
    /\ localStorageCalls = <<Call("getItem", STORAGE_KEYS.paymentMethods)>>
    /\ localStorage[STORAGE_KEYS.paymentMethods] = NoItem
    /\ Len(getAll(STORAGE_KEYS.expenses)) = 1

----------------------------------------------------------------------------
(* Failing storage *)

UpdateMutators ==
    {"updateExpense", "updateBudget", "updatePaymentMethod",
     "updateBudgetCategory"}

\* The step is an update of collection i for an id that a stored record
\* has: update() reaches its save().
UpdateOfStoredId(i) ==
    LET stored == getAll(KeyOfCollection[i])
    IN  \E id \in {stored[n].id : n \in Positions(stored)} :
            \/ i = 1 /\ \E u \in OneField("amount", Amounts) : updateExpense(id, u)
            \/ i = 2 /\ \E u \in OneField("amount", Amounts) : updateBudget(id, u)
            \/ i = 3 /\ \E u \in OneField("balance", Balances) :
                           updatePaymentMethod(id, u)
            \/ i = 4 /\ \E u \in OneField("name", CategoryNames) :
                           updateBudgetCategory(id, u)

(* C20: every mutator is all-or-nothing within its collection. When the    *)
(* item under its key cannot be parsed, and when the write it attempts is  *)
(* refused, the call ends in an exception that reaches the caller; a call  *)
(* that ends in an exception leaves localStorage and the four in-memory    *)
(* collections exactly as they were before it, so no failed call leaves    *)
(* the mutation in memory and not in storage; and a call throws for no     *)
(* other reason.                                                           *)
C20_MutatorsAreAllOrNothing ==
    [][\A i \in 1..4 :
          lastOp' \in MutatorsOfCollection[i] =>
            LET unparsable == localStorage[KeyOfCollection[i]] = Malformed
                attemptsWrite ==
                    lastOp' \notin UpdateMutators \/ UpdateOfStoredId(i)
            IN  /\ unparsable => thrown'
                /\ (~unparsable /\ quotaExceeded /\ attemptsWrite) => thrown'
                /\ thrown' =>
                      /\ memory' = memory
                      /\ localStorage' = localStorage
                      /\ setItemCalls' = << >>
                /\ thrown' => unparsable \/ quotaExceeded
      ]_vars

\* addBudget was refused its write: the budget added before is all that
\* memory and storage hold.
C20_Witness ==
    /\ lastOp = "addBudget"
    /\ thrown
    /\ quotaExceeded
    /\ nextUUID = 3
    /\ Len(budgets) = 1
    /\ persisted[2] = budgets

----------------------------------------------------------------------------
(* C21: two tabs share localStorage and each mutator runs to completion.   *)
(* No mutator of either tab ends in an exception, and an update by either  *)
(* tab of a field of a persisted expense leaves that field persisted with  *)
(* the value of this update, whatever the other tab wrote there before:    *)
(* the later write wins.                                                   *)
TabMutators ==
    {"addExpense", "updateExpense", "deleteExpense",
     "addBudget", "updateBudget", "deleteBudget",
     "otherTab.addExpense", "otherTab.updateExpense", "otherTab.deleteExpense"}

C21_LastWriteWins ==
    [][/\ lastOp' \in TabMutators => ~thrown'
       /\ lastOp' \in {"updateExpense", "otherTab.updateExpense"} =>
            \A id \in KnownIds : \A u \in OneField("amount", Amounts) :
                (updateExpense(id, u) \/ otherTabUpdateExpense(id, u)) =>
                    \A i \in Positions(persisted[1]) :
                        persisted[1][i].id = id =>
                            /\ i \in Positions(persisted[1]')
                            /\ persisted[1]'[i].id = id
                            /\ persisted[1]'[i].amount = u.amount
      ]_vars

\* This tab, which never ran initialize(), holds an expense with amount 2:
\* it added the expense with amount 1 and updated it. The other tab
\* updated the amount of the same expense to 1 in the step before, and 1
\* is persisted.
C21_Witness ==
    /\ lastOp = "otherTab.updateExpense"
    /\ ~initialized
    /\ \E i \in Positions(expenses) :
       \E j \in Positions(otherTab.expenses) :
       \E k \in Positions(persisted[1]) :
            /\ expenses[i].amount = 2
            /\ otherTab.expenses[j].id = expenses[i].id
            /\ otherTab.expenses[j].amount = 1
            /\ persisted[1][k].id = expenses[i].id
            /\ persisted[1][k].amount = 1

----------------------------------------------------------------------------
(* C22: a call of one of the five queries changes neither an in-memory     *)
(* collection nor localStorage, which it does not even read or write, and  *)
(* the value it returns is the query computed from the in-memory state the *)
(* store has at the call, the effect of the mutator before it included.    *)
QueryNames ==
    {"getExpensesByMonth", "getBudgetsByMonth", "getCategoryTotalByMonth",
     "isBudgetExceeded", "getTotalBalance"}

\* The value of the query the record r describes, in the current state.
ValueNow(r) ==
    CASE r.query = "getExpensesByMonth" ->
            InOrder(expenses, {i \in Positions(expenses) :
                                   startsWith(expenses[i].date, r.args[1])})
      [] r.query = "getBudgetsByMonth" ->
            InOrder(budgets, {i \in Positions(budgets) :
                                  budgets[i].month = r.args[1]})
      [] r.query = "getCategoryTotalByMonth" ->
            SumOver(expenses,
                    {i \in Positions(expenses) :
                        /\ expenses[i].category = r.args[1]
                        /\ startsWith(expenses[i].date, r.args[2])},
                    "amount")
      [] r.query = "isBudgetExceeded" ->
            LET matching == {i \in Positions(budgets) :
                                /\ budgets[i].category = r.args[1]
                                /\ budgets[i].month = r.args[2]}
                first == CHOOSE i \in matching : \A j \in matching : i <= j
                total == SumOver(expenses,
                                 {i \in Positions(expenses) :
                                     /\ expenses[i].category = r.args[1]
                                     /\ startsWith(expenses[i].date, r.args[2])},
                                 "amount")
            IN  matching # {} /\ total > budgets[first].amount
      [] r.query = "getTotalBalance" ->
            SumOver(paymentMethods, Positions(paymentMethods), "balance")

C22_QueriesReadCurrentState ==
    [][lastOp' \in QueryNames =>
            /\ memory' = memory
            /\ localStorage' = localStorage
            /\ localStorageCalls' = << >>
            /\ returned'.query = lastOp'
            /\ returned'.value = ValueNow(returned)'
      ]_vars

\* getCategoryTotalByMonth has just returned 2 for the month of an expense
\* whose amount is 2: the store started empty, so the call reflects the
\* mutators that ran before it.
C22_Witness ==
    /\ lastOp = "getCategoryTotalByMonth"
    /\ returned.value = 2
    /\ Len(expenses) = 1
    /\ expenses[1].amount = 2
    /\ startsWith(expenses[1].date, returned.args[2])

----------------------------------------------------------------------------
(* C23: a submission of ExpenseForm whose amount is empty, no number or    *)
(* below 1, or whose category, payment method or date is empty, shows a    *)
(* validation error, calls no mutator and leaves the store and localStorage*)
(* as they are. Every other submission shows no error and calls one        *)
(* mutator once, addExpense, or updateExpense of the expense edited, with  *)
(* the amount, category, payment method and date entered.                  *)
Entered(values) ==
    [amount        |-> Number(values.amount),
     category      |-> values.category,
     paymentMethod |-> values.paymentMethod,
     date          |-> values.date]

C23_SubmitCallsMutatorIffValid ==
    [][lastOp' \in {"handleSubmit", "addExpense", "updateExpense"} =>
        \A values \in FormValues : \A editingExpense \in EditingExpenseProps :
            handleSubmit(values, editingExpense) =>
                IF \/ values.amount = EmptyString
                   \/ isNaN(values.amount)
                   \/ Number(values.amount) < 1
                   \/ values.category = ""
                   \/ values.paymentMethod = ""
                   \/ values.date = EmptyString
                THEN /\ formErrors' # {}
                     /\ lastOp' = "handleSubmit"
                     /\ memory' = memory
                     /\ localStorage' = localStorage
                     /\ localStorageCalls' = << >>
                ELSE /\ formErrors' = {}
                     /\ budgets' = budgets
                     /\ IF editingExpense = null
                        THEN /\ lastOp' = "addExpense"
                             /\ expenses' =
                                  Append(expenses,
                                         Spread(Entered(values), [id |-> nextUUID]))
                             /\ persisted[1]' =
                                  Append(persisted[1],
                                         Spread(Entered(values), [id |-> nextUUID]))
                        ELSE /\ lastOp' = "updateExpense"
                             /\ UpdatesOneRecord(expenses, expenses',
                                                 editingExpense[1].id,
                                                 Entered(values))
      ]_vars

\* The form has added one expense, and its last submission, with an amount
\* the schema refuses and the other fields filled in, was rejected.
C23_Witness ==
    /\ lastOp = "handleSubmit"
    /\ formErrors = {"amount"}
    /\ Len(expenses) = 1
    /\ expenses[1].amount >= 1
    /\ persisted[1] = expenses

(* C24: starting from an empty store, whatever ExpenseForm is made to      *)
(* submit and whatever is edited and saved in the rows of the Expenses     *)
(* page, every expense the store holds has an amount greater than 0.       *)
C24_AmountsArePositive ==
    \A i \in Positions(expenses) : expenses[i].amount > 0

(* C25: when no effect of the Expenses page is left to run,                *)
(* editingExpenseId is null or the id of an expense the store holds, and   *)
(* while it is null editingValues is empty: when the expense edited is     *)
(* deleted, the page leaves the editing state and clears editingValues.    *)
C25_EditingAnExistingExpense ==
    ~EffectsPending =>
        /\ editingExpenseId # null => HasId(expenses, editingExpenseId[1])
        /\ editingExpenseId = null => editingValues = << >>

\* The editing effect has just ended an edit whose expense was deleted.
C25_Witness ==
    /\ lastOp = "editingEffect.clear"
    /\ editingExpenseId = null
    /\ editingValues = << >>
    /\ nextUUID > 1

----------------------------------------------------------------------------
(* C26: on the Budgets page, handleAddBudget adds the budget exactly when  *)
(* its amount is > 0, its category is not blank and the budgets of the     *)
(* month selected plus the amount do not exceed the total balance, and     *)
(* handleUpdateBudget sets the amount exactly when it is > 0 and the other *)
(* budgets of the month plus the amount do not exceed the total balance;   *)
(* otherwise they alert and change neither the store nor localStorage.     *)
(* After an accepted call the budgets of the month sum to at most the      *)
(* total balance, and every budget has an amount > 0.                      *)
Allocated(records, month) ==
    SumOver(records, {i \in Positions(records) : records[i].month = month},
            "amount")

Balance == SumOver(paymentMethods, Positions(paymentMethods), "balance")

Refused ==
    /\ alerted' # ""
    /\ memory' = memory
    /\ localStorage' = localStorage

C26_BudgetsWithinBalance ==
    [][lastOp' \in {"handleAddBudget", "handleUpdateBudget",
                    "addBudget", "updateBudget"} =>
        /\ \A i \in Positions(budgets') : budgets'[i].amount > 0
        /\ \A m \in Months : \A c \in CategoryEntries : \A a \in BudgetAmountEntries :
              handleAddBudget(m, c, a) =>
                 IF a > 0 /\ c \notin {"", " "} /\ Allocated(budgets, m) + a <= Balance
                 THEN /\ lastOp' = "addBudget"
                      /\ Len(budgets') = Len(budgets) + 1
                      /\ budgets'[Len(budgets')].amount = a
                      /\ budgets'[Len(budgets')].month = m
                      /\ Allocated(budgets', m) <= Balance'
                 ELSE Refused
        /\ \A id \in BudgetIds : \A m \in Months : \A a \in BudgetAmountEntries :
              handleUpdateBudget(id, m, a) =>
                 LET i == CHOOSE i \in Positions(budgets) : budgets[i].id = id
                 IN  IF a > 0 /\ Allocated(budgets, m) - budgets[i].amount + a <= Balance
                     THEN /\ lastOp' = "updateBudget"
                          /\ budgets' = [budgets EXCEPT ![i].amount = a]
                          /\ Allocated(budgets', m) <= Balance'
                     ELSE Refused
      ]_vars

\* An accepted add has just brought the budgets of a month to the total
\* balance exactly.
C26_Witness ==
    /\ lastOp = "addBudget"
    /\ Len(budgets) = 2
    /\ budgets[1].month = budgets[2].month
    /\ Allocated(budgets, budgets[2].month) = Balance
    /\ Balance > 0

----------------------------------------------------------------------------
(* C27: whenever the payment-methods page shows the credit-card scheduled  *)
(* amount, getCreditCardTotal() is the sum of amount over the expenses     *)
(* paid by credit card, however many credit-card payment methods are       *)
(* registered.                                                             *)
C27_CreditCardTotalIsUsage ==
    CreditCardTotalShown =>
        getCreditCardTotal =
            SumOver(expenses,
                    {i \in Positions(expenses) :
                        expenses[i].paymentMethod = "creditCard"},
                    "amount")

----------------------------------------------------------------------------
(* C28: what a mutator writes to localStorage is the persisted collection  *)
(* of its key as it was before the call, changed by this one operation,    *)
(* whatever the memory of the calling store holds. An add keeps every      *)
(* persisted record and appends one; a delete removes the records of one   *)
(* id and keeps the others in order; an update keeps every record of       *)
(* another id as it is, in its place. The other keys keep their items.     *)
PersistedAdd(before, after) ==
    /\ Len(after) = Len(before) + 1
    /\ SubSeq(after, 1, Len(before)) = before

PersistedDelete(before, after) ==
    \E id \in KnownIds :
        after = InOrder(before, {i \in Positions(before) : before[i].id # id})

PersistedUpdate(before, after) ==
    /\ Len(after) = Len(before)
    /\ \E id \in KnownIds :
          \A i \in Positions(before) : before[i].id # id => after[i] = before[i]

C28_WritesDeriveFromPersisted ==
    [][/\ lastOp' \in {"addExpense", "otherTab.addExpense"} =>
            PersistedAdd(persisted[1], persisted[1]')
       /\ lastOp' \in {"updateExpense", "otherTab.updateExpense"} =>
            PersistedUpdate(persisted[1], persisted[1]')
       /\ lastOp' \in {"deleteExpense", "otherTab.deleteExpense"} =>
            PersistedDelete(persisted[1], persisted[1]')
       /\ lastOp' = "addBudget" => PersistedAdd(persisted[2], persisted[2]')
       /\ lastOp' = "updateBudget" => PersistedUpdate(persisted[2], persisted[2]')
       /\ lastOp' = "deleteBudget" => PersistedDelete(persisted[2], persisted[2]')
       /\ lastOp' \in {"addBudget", "updateBudget", "deleteBudget"} =>
            persisted[1]' = persisted[1]
       /\ lastOp' \in TabMutators /\ lastOp' \notin {"addBudget", "updateBudget", "deleteBudget"} =>
            persisted[2]' = persisted[2]
      ]_vars

\* This tab never ran initialize() and holds only the expense it added
\* itself in the step before; the expense the other tab persisted earlier
\* is still persisted, in front of it.
C28_Witness ==
    /\ lastOp = "addExpense"
    /\ ~initialized
    /\ Len(expenses) = 1
    /\ Len(persisted[1]) = 2
    /\ persisted[1][2] = expenses[1]
    /\ otherTab.expenses = <<persisted[1][1]>>

----------------------------------------------------------------------------
(* C29: addBudget appends its budget also when a budget of the same        *)
(* category and month exists, and keeps the budgets held. Among several    *)
(* budgets of a category and month the one inserted first decides          *)
(* isBudgetExceeded: it is true exactly when the category total is         *)
(* strictly greater than that budget's amount, whatever the amounts of the *)
(* later ones. deleteBudget keeps the other budgets in their order, so     *)
(* that after the first is deleted the one inserted next decides.          *)
SameCategoryAndMonth(category, month) ==
    {i \in Positions(budgets) :
        budgets[i].category = category /\ budgets[i].month = month}

FirstBudgetDecides ==
    \A c \in Categories, m \in Months :
        SameCategoryAndMonth(c, m) # {} =>
            LET first == CHOOSE i \in SameCategoryAndMonth(c, m) :
                            \A j \in SameCategoryAndMonth(c, m) : i <= j
                total == SumOver(expenses,
                                 {i \in Positions(expenses) :
                                     /\ expenses[i].category = c
                                     /\ YearMonth(expenses[i].date) = m},
                                 "amount")
            IN  isBudgetExceeded(c, m) = (total > budgets[first].amount)

C29_FirstOfDuplicateBudgetsDecides ==
    [][/\ FirstBudgetDecides'
       /\ lastOp' = "addBudget" =>
            /\ Len(budgets') = Len(budgets) + 1
            /\ SubSeq(budgets', 1, Len(budgets)) = budgets
       /\ lastOp' = "deleteBudget" =>
            \E id \in BudgetIds :
                budgets' = InOrder(budgets, {i \in Positions(budgets) :
                                                budgets[i].id # id})
      ]_vars

\* Of two budgets for food in January, the first (amount 1) has just been
\* deleted; the second (amount 2) is left and decides: a total of 2, which
\* exceeded the first, does not exceed it.
C29_Witness ==
    /\ lastOp = "deleteBudget"
    /\ initialized
    /\ Len(budgets) = 1
    /\ budgets[1].id # 0
    /\ budgets[1].category = "food"
    /\ budgets[1].month = Jan
    /\ budgets[1].amount = 2
    /\ getCategoryTotalByMonth("food", Jan) = 2
    /\ ~isBudgetExceeded("food", Jan)
    /\ ~HasId(persisted[2], 0)

----------------------------------------------------------------------------
(* C30: initialize() is all-or-nothing across the four collections. When   *)
(* the item of at least one key is malformed in a browser, initialize()    *)
(* throws and each of the four in-memory collections is what it was before *)
(* the call, also those whose items are well-formed and hold other records *)
(* than memory does.                                                       *)
C30_InitializeIsAllOrNothing ==
    [][(/\ lastOp' = "initialize"
        /\ env = "browser"
        /\ \E key \in StorageKeySet : localStorage[key] = Malformed)
       => /\ thrown'
          /\ expenses' = expenses
          /\ budgets' = budgets
          /\ paymentMethods' = paymentMethods
          /\ budgetCategories' = budgetCategories
          /\ localStorage' = localStorage
      ]_vars

\* initialize() has thrown on the malformed item of the budget categories,
\* the last it reads; the budgets and payment methods stored well-formed
\* were read and are not in memory.
C30_Witness ==
    /\ lastOp = "initialize"
    /\ thrown
    /\ ~initialized
    /\ localStorage[STORAGE_KEYS.budgetCategories] = Malformed
    /\ localStorage[STORAGE_KEYS.budgets] = Item(JSONStringify(EarlierBudgets))
    /\ localStorage[STORAGE_KEYS.paymentMethods]
           = Item(JSONStringify(EarlierPaymentMethods))
    /\ localStorage[STORAGE_KEYS.expenses] # Malformed
    /\ budgets = << >>
    /\ paymentMethods = << >>
    /\ Len(localStorageCalls) = 4

====
